---- MODULE Spec2Model ----
(***************************************************************************)
(* Adaptive model router: the execution loop and the per-model circuit     *)
(* breaker of ChatService (src/src/providers/openai.ts), with the provider *)
(* adapters' sendMessage contract and the provider usage timestamps.       *)
(*                                                                         *)
(* Time is Date.now() in milliseconds.  A chat request is a JavaScript     *)
(* async call: it runs atomically between two awaits and the clock may     *)
(* advance while it awaits the adapter.  Requests names the request slots; *)
(* with one slot, requests follow one another on the shared health map.    *)
(*                                                                         *)
(* The registry is RouterClient's two provider Maps (src/unnamed/part_002) *)
(* as DataManagementService (src/unnamed/part_001) fills them from the     *)
(* benchmark responses and ProviderManagementService flags and prunes      *)
(* them.  A JavaScript Map is a sequence of <<key, value>> pairs in        *)
(* insertion order; an optional property is a field the record may lack.   *)
(***************************************************************************)
EXTENDS Naturals, Sequences, FiniteSets, TLC

\* ------------------------------------------------------------------ bounds

\* The clock advances at most MaxTicks times, by ClockStep each time.
MaxTicks == 1
\* A provider failure is only drawn while the model's count is below this.
MaxFailures == 3
\* The request slots: the chat requests that may be in flight at a time.
Requests == {"r1"}
\* options.providers of the client whose chat requests are followed.
DefaultConfig == <<"openai", "anthropic">>
\* The models the full snapshot lists for the first provider besides gpt-4.
MaxExtraModels == 10

\* ------------------------------------------------------- program constants

\* 15 * 60 * 1000 in recordModelFailure: the length of a temporary disable.
DISABLE_MS == 15 * 60 * 1000
\* The failure count from which a temporary failure disables the model.
FAILURE_THRESHOLD == 3
\* options.maxAge ?? 168: the default maximum data age, in hours
DEFAULT_MAX_AGE == 168
\* Granularity of the modelled clock: one millisecond more than a disable
\* window, so that one step takes a disabled model past its disabledUntil.
ClockStep == DISABLE_MS + 1

\* ----------------------------------------------------------------- JS Maps

\* A Map is the sequence of its <<key, value>> entries, in insertion order.
MapKeys(map) == {map[i][1] : i \in DOMAIN map}
MapHas(map, key) == key \in MapKeys(map)
MapGet(map, key) == map[CHOOSE i \in DOMAIN map : map[i][1] = key][2]
\* set keeps the position of an existing key and appends a new one.
MapSet(map, key, value) ==
  IF MapHas(map, key)
    THEN [i \in DOMAIN map |-> IF map[i][1] = key THEN <<key, value>> ELSE map[i]]
    ELSE Append(map, <<key, value>>)
MapDelete(map, key) == SelectSeq(map, LAMBDA e : e[1] # key)
MapValues(map) == [i \in DOMAIN map |-> map[i][2]]

\* ------------------------------------------------- the benchmark snapshots

\* The evaluation metrics extractLLMData copies from an item.
LLMMetricNames ==
  {"artificial_analysis_intelligence_index", "artificial_analysis_coding_index",
   "artificial_analysis_math_index", "mmlu_pro_index", "physics_knowledge_index",
   "human_level_evaluation_index", "live_code_benchmark_index",
   "science_code_benchmark_index", "math_benchmark_index", "aime_index",
   "aime_25_index", "image_benchmark_index"}

\* The model_type populateMediaData gives to the items of its five endpoints.
MediaModelTypes ==
  <<"Text-To-Image", "Image-editing", "Text-To-Speech", "text-to-video", "image-to-video">>

\* Items of the "llms/models" endpoint.  An evaluation object is the function
\* from the metrics it reports (neither null nor undefined) to their scores.
GPT_ITEM ==
  [model_creator |-> [name |-> "openai"], name |-> "gpt-4",
   price_per_1M_input_tokens |-> 30, median_time_to_first_token |-> 1,
   evaluations |-> <<[artificial_analysis_coding_index |-> 40]>>]
\* gpt-4 as a later snapshot reports it: cheaper, and scored on another metric.
GPT_ITEM_UPDATED ==
  [model_creator |-> [name |-> "openai"], name |-> "gpt-4",
   price_per_1M_input_tokens |-> 10, median_time_to_first_token |-> 2,
   evaluations |-> <<[mmlu_pro_index |-> 60]>>]
CLAUDE_ITEM ==
  [model_creator |-> [name |-> "anthropic"], name |-> "claude-3",
   price_per_1M_input_tokens |-> 15, median_time_to_first_token |-> 1,
   evaluations |-> <<[mmlu_pro_index |-> 70]>>]
\* The further models the benchmark lists for the first provider.
ExtraItem(i) ==
  [model_creator |-> [name |-> "openai"], name |-> "gpt-4-v" \o ToString(i),
   price_per_1M_input_tokens |-> 30 + i, median_time_to_first_token |-> 1,
   evaluations |-> <<[artificial_analysis_coding_index |-> 40]>>]
ExtraItems == [i \in 1..MaxExtraModels |-> ExtraItem(i)]

\* Items of a media endpoint; elo and rank are absent when the API has null.
DALLE_ITEM == [model_creator |-> [name |-> "openai"], name |-> "dall-e",
               elo |-> 1000, rank |-> 1]
DALLE_ITEM_UNRATED == [model_creator |-> [name |-> "openai"], name |-> "dall-e"]

\* What one refresh fetches: the LLM array and the five media arrays.
SNAPSHOT_EMPTY == [llm |-> <<>>, media |-> <<<<>>, <<>>, <<>>, <<>>, <<>>>>]
SNAPSHOT_FULL ==
  [llm |-> <<GPT_ITEM>> \o ExtraItems \o <<CLAUDE_ITEM>>,
   media |-> <<<<DALLE_ITEM>>, <<>>, <<>>, <<>>, <<>>>>]
SNAPSHOT_UPDATE ==
  [llm |-> <<GPT_ITEM_UPDATED>>,
   media |-> <<<<DALLE_ITEM_UNRATED>>, <<>>, <<>>, <<>>, <<>>>>]
Snapshots == {SNAPSHOT_EMPTY, SNAPSHOT_FULL, SNAPSHOT_UPDATE}

\* `${item.model_creator.name}:${item.name}`
ItemKey(item) == item.model_creator.name \o ":" \o item.name

\* ------------------------------------------------------------ the registry

\* llmProviders and mediaProviders are Maps from a provider name to
\* {has_api_key, models, last_used}; models is a Map from a model name to the
\* model's record; last_used is <<>> (null) or <<time>>.  A model's
\* evaluations Map is the function from its metric names to their scores.
\* Of the benchmark fields, the output price, the output speed, ci95 and the
\* categories are left out: they are written like the fields kept here.

\* The provider entry ensureLLMProvider creates.
NewProvider == [has_api_key |-> FALSE, models |-> <<>>, last_used |-> <<>>]

\* The record ensureLLMModel creates.
NewLLMModel(providerName, modelName) ==
  [name |-> modelName, provider_name |-> providerName, evaluations |-> <<>>,
   price |-> 0, latency |-> 0,
   price_per_1M_input_tokens |-> 0, median_time_to_first_token |-> 0,
   failures |-> 0, lastFailure |-> 0, disabledReason |-> "null"]

\* The record ensureMediaModel creates.
NewMediaModel(providerName, modelName) ==
  [name |-> modelName, provider_name |-> providerName, evaluations |-> <<>>,
   price |-> 0, latency |-> 0, elo |-> 0, rank |-> 0, model_type |-> "",
   failures |-> 0, lastFailure |-> 0, disabledReason |-> "null"]

\* evaluations.set(metric, score)
EvaluationsSet(evaluations, metric, score) ==
  [m \in (DOMAIN evaluations) \cup {metric} |->
     IF m = metric THEN score ELSE evaluations[m]]

\* The inner loop of extractLLMData on one evaluation object: every listed
\* metric the object reports is set, the other entries stay.
SetReportedMetrics(evaluations, evaluation) ==
  [m \in (DOMAIN evaluations) \cup ((DOMAIN evaluation) \cap LLMMetricNames) |->
     IF m \in (DOMAIN evaluation) \cap LLMMetricNames
       THEN evaluation[m] ELSE evaluations[m]]

RECURSIVE PopulateEvaluations(_, _)
\* for (const evaluation of item.evaluations) ...
PopulateEvaluations(evaluations, itemEvaluations) ==
  IF itemEvaluations = <<>> THEN evaluations
  ELSE PopulateEvaluations(SetReportedMetrics(evaluations, Head(itemEvaluations)),
                           Tail(itemEvaluations))

\* Mutant of UpdatedLLMModel: the price is added to the stored one.
UpdatedLLMModelAddsPrice(modelData, item) ==
  [modelData EXCEPT
     !.price_per_1M_input_tokens = @ + item.price_per_1M_input_tokens,
     !.median_time_to_first_token = item.median_time_to_first_token,
     !.price = @ + item.price_per_1M_input_tokens,
     !.latency = item.median_time_to_first_token,
     !.evaluations = PopulateEvaluations(@, item.evaluations)]

\* The assignments of extractLLMData to the model record of one item.
UpdatedLLMModel(modelData, item) ==
  [modelData EXCEPT
     !.price_per_1M_input_tokens = item.price_per_1M_input_tokens,
     !.median_time_to_first_token = item.median_time_to_first_token,
     !.price = item.price_per_1M_input_tokens,
     !.latency = item.median_time_to_first_token,
     !.evaluations = PopulateEvaluations(@, item.evaluations)]

\* item.elo || 0
OrZero(item, field) == IF field \in DOMAIN item THEN item[field] ELSE 0

\* evaluations.set(field, item[field]) unless the item has null there.
SetIfReported(evaluations, item, field) ==
  IF field \in DOMAIN item THEN EvaluationsSet(evaluations, field, item[field])
  ELSE evaluations

\* The assignments of extractMediaData to the model record of one item.
UpdatedMediaModel(modelData, item, model_type) ==
  [modelData EXCEPT
     !.model_type = model_type,
     !.elo = OrZero(item, "elo"),
     !.rank = OrZero(item, "rank"),
     !.price = 0,
     !.latency = 0,
     !.evaluations = SetIfReported(SetIfReported(@, item, "elo"), item, "rank")]

\* The models of the request loop, as the registry holds them after the full
\* snapshot.  Every model has the base fields (name, provider_name, price);
\* LLMModelData adds price_per_1M_input_tokens, MediaModelData adds elo.
\* executeModelsInOrder tells the families apart by price_per_1M_input_tokens.
GPT == UpdatedLLMModel(NewLLMModel("openai", "gpt-4"), GPT_ITEM)
CLAUDE == UpdatedLLMModel(NewLLMModel("anthropic", "claude-3"), CLAUDE_ITEM)
DALLE == UpdatedMediaModel(NewMediaModel("openai", "dall-e"), DALLE_ITEM, MediaModelTypes[1])

LLMModels == {GPT, CLAUDE}
MediaModels == {DALLE}
AllModels == LLMModels \cup MediaModels

LLMProviderNames == {m.provider_name : m \in LLMModels}
MediaProviderNames == {m.provider_name : m \in MediaModels}

\* `${model.provider_name}:${model.name}`
ModelKey(model) == model.provider_name \o ":" \o model.name

ModelKeys == {ModelKey(m) : m \in AllModels}

\* Mutant of ModelType: the family is read off the base field price, which
\* media models carry too.
ModelTypeByBasePrice(model) ==
  IF "price" \in DOMAIN model THEN "LLM" ELSE "Media"

\* 'price_per_1M_input_tokens' in model ? 'LLM' : 'Media'
ModelType(model) ==
  IF "price_per_1M_input_tokens" \in DOMAIN model THEN "LLM" ELSE "Media"

\* ------------------------------------------------- DataManagementService

\* Mutant of ensureLLMProvider: an existing entry is reset to a new one that
\* keeps only the models.
ensureLLMProviderAnew(llm, providerName) ==
  IF MapHas(llm, providerName)
    THEN MapSet(llm, providerName,
                [NewProvider EXCEPT !.models = MapGet(llm, providerName).models])
    ELSE MapSet(llm, providerName, NewProvider)

\* ensureLLMProvider: an existing entry is returned as it is.
ensureLLMProvider(llm, providerName) ==
  IF MapHas(llm, providerName) THEN llm ELSE MapSet(llm, providerName, NewProvider)

ensureMediaProvider(media, providerName) ==
  IF MapHas(media, providerName) THEN media ELSE MapSet(media, providerName, NewProvider)

\* provider.models.set(modelName, modelData) on the entry of providerName
SetModel(map, providerName, modelName, modelData) ==
  MapSet(map, providerName,
         [MapGet(map, providerName) EXCEPT !.models = MapSet(@, modelName, modelData)])

\* ensureLLMModel: an existing record is returned as it is.
ensureLLMModel(llm, providerName, modelName) ==
  LET ensured == ensureLLMProvider(llm, providerName)
  IN IF MapHas(MapGet(ensured, providerName).models, modelName) THEN ensured
     ELSE SetModel(ensured, providerName, modelName, NewLLMModel(providerName, modelName))

ensureMediaModel(media, providerName, modelName) ==
  LET ensured == ensureMediaProvider(media, providerName)
  IN IF MapHas(MapGet(ensured, providerName).models, modelName) THEN ensured
     ELSE SetModel(ensured, providerName, modelName, NewMediaModel(providerName, modelName))

\* One iteration of extractLLMData.
ExtractLLMItem(llm, item) ==
  LET providerName == item.model_creator.name
      modelName == item.name
      ensured == ensureLLMModel(llm, providerName, modelName)
      modelData == MapGet(MapGet(ensured, providerName).models, modelName)
  IN SetModel(ensured, providerName, modelName, UpdatedLLMModel(modelData, item))

RECURSIVE extractLLMData(_, _)
\* for (const item of data) ...; the Map after an item is looked at before
\* the next item, which keeps the evaluation of a long array shallow.
extractLLMData(llm, data) ==
  IF data = <<>> THEN llm
  ELSE LET next == ExtractLLMItem(llm, Head(data))
       IN IF Len(next) = 0 THEN extractLLMData(<<>>, Tail(data))
          ELSE extractLLMData(next, Tail(data))

\* One iteration of extractMediaData.
ExtractMediaItem(media, item, model_type) ==
  LET providerName == item.model_creator.name
      modelName == item.name
      ensured == ensureMediaModel(media, providerName, modelName)
      modelData == MapGet(MapGet(ensured, providerName).models, modelName)
  IN SetModel(ensured, providerName, modelName,
              UpdatedMediaModel(modelData, item, model_type))

RECURSIVE extractMediaData(_, _, _)
extractMediaData(media, data, model_type) ==
  IF data = <<>> THEN media
  ELSE extractMediaData(ExtractMediaItem(media, Head(data), model_type),
                        Tail(data), model_type)

\* modelData.last_used === null: strict equality, false for a record that
\* has no last_used property (undefined).
LastUsedIsNull(modelData) ==
  IF "last_used" \in DOMAIN modelData THEN modelData.last_used = <<>> ELSE FALSE

\* Mutant of IsUnusedStale: a model without a last_used property counts as
\* never used.
IsUnusedStaleOrUndefined(apiModelKeys, providerName, modelName, modelData) ==
  /\ providerName \o ":" \o modelName \notin apiModelKeys
  /\ IF "last_used" \in DOMAIN modelData THEN modelData.last_used = <<>> ELSE TRUE

\* !apiModelKeys.has(modelKey) && modelData.last_used === null
IsUnusedStale(apiModelKeys, providerName, modelName, modelData) ==
  /\ providerName \o ":" \o modelName \notin apiModelKeys
  /\ LastUsedIsNull(modelData)

\* The inner loop of the purge: the models of one provider that stay.
RetainedModels(apiModelKeys, providerName, providerModels) ==
  SelectSeq(providerModels,
            LAMBDA e : ~IsUnusedStale(apiModelKeys, providerName, e[1], e[2]))

\* The loop of removeUnusedStaleLLMModels / removeUnusedStaleMediaModels over
\* one provider Map: unused stale models are deleted, then a provider left
\* without models is deleted.
RemoveUnusedStale(map, apiModelKeys) ==
  LET purged == [i \in DOMAIN map |->
                   <<map[i][1],
                     [map[i][2] EXCEPT
                        !.models = RetainedModels(apiModelKeys, map[i][1], @)]>>]
  IN SelectSeq(purged, LAMBDA e : Len(e[2].models) # 0)

removeUnusedStaleLLMModels(llm, apiData) ==
  RemoveUnusedStale(llm, {ItemKey(apiData[i]) : i \in DOMAIN apiData})

removeUnusedStaleMediaModels(media, apiDataArrays) ==
  RemoveUnusedStale(media,
    UNION {{ItemKey(apiDataArrays[k][i]) : i \in DOMAIN apiDataArrays[k]} :
             k \in DOMAIN apiDataArrays})

\* populateLLMData on the fetched array.
populateLLMData(llm, data) ==
  removeUnusedStaleLLMModels(extractLLMData(llm, data), data)

RECURSIVE ExtractMediaArrays(_, _, _)
\* The five extractMediaData calls of populateMediaData, from endpoint k on.
ExtractMediaArrays(media, apiDataArrays, k) ==
  IF k > Len(apiDataArrays) THEN media
  ELSE ExtractMediaArrays(extractMediaData(media, apiDataArrays[k], MediaModelTypes[k]),
                          apiDataArrays, k + 1)

\* populateMediaData on the five fetched arrays.
populateMediaData(media, apiDataArrays) ==
  removeUnusedStaleMediaModels(ExtractMediaArrays(media, apiDataArrays, 1), apiDataArrays)

\* ----------------------------------------------- ProviderManagementService

\* Mutant of updateProviderAPIKeyStatus: a provider the Map lacks is created.
updateProviderAPIKeyStatusUpsert(map, providerName, hasAPIKey) ==
  IF MapHas(map, providerName)
    THEN MapSet(map, providerName,
                [MapGet(map, providerName) EXCEPT !.has_api_key = hasAPIKey])
    ELSE MapSet(map, providerName, [NewProvider EXCEPT !.has_api_key = hasAPIKey])

\* What updateProviderAPIKeyStatus returns: whether either Map has the provider.
updated(llm, media, providerName) ==
  MapHas(llm, providerName) \/ MapHas(media, providerName)

\* updateProviderAPIKeyStatus on one provider Map.
updateProviderAPIKeyStatus(map, providerName, hasAPIKey) ==
  IF MapHas(map, providerName)
    THEN MapSet(map, providerName,
                [MapGet(map, providerName) EXCEPT !.has_api_key = hasAPIKey])
    ELSE map

RECURSIVE processProviderAPIKeys(_, _)
\* processProviderAPIKeys on one provider Map: every configured provider that
\* the Map holds gets has_api_key = true.
processProviderAPIKeys(map, config) ==
  IF config = <<>> THEN map
  ELSE processProviderAPIKeys(updateProviderAPIKeyStatus(map, Head(config), TRUE),
                              Tail(config))

\* this.providers.findIndex(p => p.provider_name === providerName), 0 for -1
FindIndex(config, providerName) ==
  IF \E i \in DOMAIN config : config[i] = providerName
    THEN CHOOSE i \in DOMAIN config :
           /\ config[i] = providerName
           /\ \A j \in 1..(i - 1) : config[j] # providerName
    ELSE 0

\* this.providers.splice(index, 1)
Splice(config, index) ==
  [i \in 1..(Len(config) - 1) |-> IF i < index THEN config[i] ELSE config[i + 1]]

\* Mutant of RemoveModelFrom: the model is deleted, an emptied provider stays.
RemoveModelFromKeepsProvider(map, providerName, modelName) ==
  IF ~MapHas(map, providerName) THEN map
  ELSE MapSet(map, providerName,
              [MapGet(map, providerName) EXCEPT !.models = MapDelete(@, modelName)])

\* removeModel on one provider Map: delete the model, then the provider when
\* it has no models left.
RemoveModelFrom(map, providerName, modelName) ==
  IF ~MapHas(map, providerName) THEN map
  ELSE LET provider == MapGet(map, providerName)
           remaining == MapDelete(provider.models, modelName)
       IN IF Len(remaining) = 0 THEN MapDelete(map, providerName)
          ELSE MapSet(map, providerName, [provider EXCEPT !.models = remaining])

\* ------------------------------------------------ the capability filter

RECURSIVE ModelsOfKeyedProviders(_)
\* One loop of getModelsWithAPIKeys: the models of the providers that have
\* an API key, provider after provider, in Map order.
ModelsOfKeyedProviders(map) ==
  IF map = <<>> THEN <<>>
  ELSE (IF Head(map)[2].has_api_key THEN MapValues(Head(map)[2].models) ELSE <<>>)
       \o ModelsOfKeyedProviders(Tail(map))

\* getModelsWithAPIKeys: the LLM models first, then the media models.
getModelsWithAPIKeys(llm, media) ==
  ModelsOfKeyedProviders(llm) \o ModelsOfKeyedProviders(media)

\* filterModelsByMetrics: relevantMetrics.some(metric => model.evaluations.has(metric))
filterModelsByMetrics(modelList, relevantMetrics) ==
  SelectSeq(modelList,
            LAMBDA model : \E k \in DOMAIN relevantMetrics :
                             relevantMetrics[k] \in DOMAIN model.evaluations)

\* Array.prototype.slice(0, count)
Slice(list, count) == SubSeq(list, 1, IF count < Len(list) THEN count ELSE Len(list))

\* getFilteredModels(relevantMetrics, priorityMetrics, count)
getFilteredModels(llm, media, relevantMetrics, count) ==
  Slice(filterModelsByMetrics(getModelsWithAPIKeys(llm, media), relevantMetrics), count)

\* ------------------------------------------------------- provider failures

\* What a vendor SDK throws inside an adapter: an Error with a message and,
\* for an HTTP failure, a status.  A message is the sequence of its words.
Err401 == [status |-> 401, message |-> <<"401", "Incorrect", "API", "key", "provided">>]
Err401Typed == [status |-> 401, message |-> <<"401", "Authentication_Error", "invalid", "x-api-key">>]
Err500 == [status |-> 500, message |-> <<"500", "Internal", "Server", "Error">>]

ProviderErrors == {Err401, Err401Typed, Err500}

\* String.prototype.toLowerCase on the words used above.
ToLowerCase(w) ==
  CASE w = "Incorrect" -> "incorrect"
    [] w = "API" -> "api"
    [] w = "Authentication_Error" -> "authentication_error"
    [] w = "Internal" -> "internal"
    [] w = "Server" -> "server"
    [] w = "Error" -> "error"
    [] w = "Connection" -> "connection"
    [] OTHER -> w

\* The substrings classifyError looks for in the lower-cased message.
PermanentPatterns ==
  {"permission_denied", "access_denied", "insufficient_quota",
   "authentication_error", "auth_error", "model_not_found", "billing_required"}

\* errorMessage.includes(p) for one of the patterns p
IncludesPermanentPattern(message) ==
  \E k \in DOMAIN message : ToLowerCase(message[k]) \in PermanentPatterns

\* classifyError: error?.status || error?.statusCode, then the message.
classifyError(error) ==
  LET hasStatus == "status" \in DOMAIN error
      errorMessage == IF "message" \in DOMAIN error THEN error.message ELSE <<>>
  IN IF hasStatus /\ error.status >= 400 /\ error.status <= 403 THEN "PERMANENT"
     ELSE IF IncludesPermanentPattern(errorMessage) THEN "PERMANENT"
     ELSE "TEMPORARY"

\* An adapter's sendMessage catches what the SDK throws and returns
\* {success: false, error: error.message}: the status is not carried over.
sendMessageFailure(sdkError) == [success |-> FALSE, error |-> sdkError.message]

\* executeLLMModel: throw new Error(response.error || 'Unknown provider error')
executeLLMModelThrown(response) ==
  [message |-> IF response.error = <<>> THEN <<"Unknown", "provider", "error">>
               ELSE response.error]

\* ------------------------------------------------------------------- state

VARIABLES
  now,            \* Date.now()
  modelHealth,    \* ChatService.modelHealth: model key -> health record
  llmProviders,   \* RouterClient.llmProviders
  mediaProviders, \* RouterClient.mediaProviders
  providers,      \* RouterClient.providers: the configured provider names
  call,           \* the call on the registry the last step made, with its
                  \* arguments and result, or NoCall
  revoked,        \* history: providers removed from the configuration and
                  \* not added again since
  rotating,       \* client.isRotatingEnabled(): modelSelection.rotating
  modelSelection, \* ConfigurationService.modelSelection: the strategy flags
  maxAge,         \* ConfigurationService.maxAge, in hours
  staleCleanUp,   \* ConfigurationService.staleCleanUp
  lastInitialization, \* RouterClient.lastInitialization
  pc,             \* per request: "idle", "loop", "await", "done"
  models,         \* per request: the ordered candidate list
  idx,            \* per request: the loop index i (1-based)
  invoked,        \* per request: list positions whose adapter was invoked
  thrown,         \* <<>>, or <<the SDK error>> when the last step was a failed call
  response        \* per request: <<>> or <<the ChatResponse returned>>

vars == <<now, modelHealth, llmProviders, mediaProviders, providers, call, revoked,
          rotating, modelSelection, maxAge, staleCleanUp, lastInitialization,
          pc, models, idx, invoked, thrown, response>>

\* The fields of the ConfigurationService.
settingsVars == <<rotating, modelSelection, maxAge, staleCleanUp>>

registryVars ==
  <<llmProviders, mediaProviders, providers, revoked, settingsVars, lastInitialization>>

\* The strategy flags the ConfigurationService constructor starts from.
DefaultModelSelection == [cheapest |-> FALSE, accurate |-> FALSE, middle |-> TRUE]

\* The value of call after a step that is no call on the registry.
NoCall == [op |-> "none"]

\* What a chat request reads and writes besides the provider Maps.
loopVars == <<now, modelHealth, pc, models, idx, invoked, response>>

\* ------------------------------------------------------ the circuit breaker

\* Mutant of isModelDisabledAt: a temporary disable never expires.
isModelDisabledAtNoExpiry(health, model, t) ==
  /\ ModelKey(model) \in DOMAIN health
  /\ health[ModelKey(model)].disabledReason \in {"PERMANENT", "TEMPORARY"}

\* isModelDisabled at time t
isModelDisabledAt(health, model, t) ==
  LET modelKey == ModelKey(model)
  IN IF modelKey \notin DOMAIN health THEN FALSE
     ELSE LET currentHealth == health[modelKey]
          IN IF currentHealth.disabledReason = "PERMANENT" THEN TRUE
             ELSE /\ currentHealth.disabledReason = "TEMPORARY"
                  /\ "disabledUntil" \in DOMAIN currentHealth
                  /\ currentHealth.disabledUntil # 0
                  /\ t < currentHealth.disabledUntil

isModelDisabled(model) == isModelDisabledAt(modelHealth, model, now)

\* Mutant of CountedHealth: the increment is applied to the count of a new
\* record, as if the stored record had not been read.
CountedHealthFromNew(health, model, t) ==
  LET modelKey == ModelKey(model)
      currentHealth == IF modelKey \in DOMAIN health THEN health[modelKey]
                       ELSE [failures |-> 0, lastFailure |-> t, disabledReason |-> "null"]
  IN [currentHealth EXCEPT !.failures = 1, !.lastFailure = t]

\* The health record recordModelFailure starts from, with the count
\* incremented and lastFailure set.
CountedHealth(health, model, t) ==
  LET modelKey == ModelKey(model)
      currentHealth == IF modelKey \in DOMAIN health THEN health[modelKey]
                       ELSE [failures |-> 0, lastFailure |-> t, disabledReason |-> "null"]
  IN [currentHealth EXCEPT !.failures = @ + 1, !.lastFailure = t]

\* currentHealth.disabledReason = 'TEMPORARY'; currentHealth.disabledUntil = t + 15 min
TemporarilyDisabled(counted, t) ==
  [f \in (DOMAIN counted) \cup {"disabledUntil"} |->
     CASE f = "disabledReason" -> "TEMPORARY"
       [] f = "disabledUntil" -> t + DISABLE_MS
       [] OTHER -> counted[f]]

\* Mutant of FailedHealth: the temporary disable needs more than 3 failures.
FailedHealthAboveThreshold(health, model, error, t) ==
  LET counted == CountedHealth(health, model, t)
  IN IF classifyError(error) = "PERMANENT"
       THEN [counted EXCEPT !.disabledReason = "PERMANENT"]
     ELSE IF counted.failures > FAILURE_THRESHOLD
       THEN TemporarilyDisabled(counted, t)
     ELSE counted

\* Mutant of FailedHealth: a permanent error disables only from 3 failures on.
FailedHealthPermanentFromThreshold(health, model, error, t) ==
  LET counted == CountedHealth(health, model, t)
  IN IF counted.failures >= FAILURE_THRESHOLD
       THEN IF classifyError(error) = "PERMANENT"
              THEN [counted EXCEPT !.disabledReason = "PERMANENT"]
              ELSE TemporarilyDisabled(counted, t)
     ELSE counted

\* Mutant of FailedHealth: a failure after an expired temporary disable
\* starts a new count.
FailedHealthNewAllowance(health, model, error, t) ==
  LET counted == CountedHealth(health, model, t)
      errorType == classifyError(error)
      expired == /\ counted.disabledReason = "TEMPORARY"
                 /\ ~isModelDisabledAt(health, model, t)
  IN IF errorType = "PERMANENT"
       THEN [counted EXCEPT !.disabledReason = "PERMANENT"]
     ELSE IF expired
       THEN [failures |-> 1, lastFailure |-> t, disabledReason |-> "null"]
     ELSE IF counted.failures >= FAILURE_THRESHOLD
       THEN TemporarilyDisabled(counted, t)
     ELSE counted

\* The record recordModelFailure stores: count incremented, lastFailure set,
\* then the classification decides disabledReason / disabledUntil.
FailedHealth(health, model, error, t) ==
  LET counted == CountedHealth(health, model, t)
      errorType == classifyError(error)
  IN IF errorType = "PERMANENT"
       THEN [counted EXCEPT !.disabledReason = "PERMANENT"]
     ELSE IF counted.failures >= FAILURE_THRESHOLD
       THEN TemporarilyDisabled(counted, t)
     ELSE counted

\* Mutant of recordModelFailure: the failure is counted on every record.
recordModelFailureEveryRecord(health, model, error, t) ==
  LET modelKey == ModelKey(model)
  IN [k \in (DOMAIN health) \cup {modelKey} |->
        IF k = modelKey THEN FailedHealth(health, model, error, t)
        ELSE [health[k] EXCEPT !.failures = @ + 1]]

\* recordModelFailure: this.modelHealth.set(modelKey, currentHealth)
recordModelFailure(health, model, error, t) ==
  LET modelKey == ModelKey(model)
  IN [k \in (DOMAIN health) \cup {modelKey} |->
        IF k = modelKey THEN FailedHealth(health, model, error, t) ELSE health[k]]

\* Mutant of resetModelFailures: the count is reset, the disable state is kept.
resetModelFailuresKeepsDisable(health, model, t) ==
  LET modelKey == ModelKey(model)
  IN IF modelKey \notin DOMAIN health THEN health
     ELSE [health EXCEPT ![modelKey] = [@ EXCEPT !.failures = 0, !.lastFailure = t]]

\* resetModelFailures: only an existing record is reset; disabledUntil is deleted.
resetModelFailures(health, model, t) ==
  LET modelKey == ModelKey(model)
  IN IF modelKey \notin DOMAIN health THEN health
     ELSE [health EXCEPT ![modelKey] =
             [failures |-> 0, lastFailure |-> t, disabledReason |-> "null"]]

\* The failure count of a model; a model without a record has none.
FailuresOf(health, model) ==
  IF ModelKey(model) \in DOMAIN health THEN health[ModelKey(model)].failures ELSE 0

\* Mutant of updateProviderUsage: every provider of the Map is stamped.
updateProviderUsageEveryProvider(map, providerName, t) ==
  [i \in DOMAIN map |-> <<map[i][1], [map[i][2] EXCEPT !.last_used = <<t>>]>>]

\* updateProviderUsage on one provider Map: set last_used where the provider exists.
updateProviderUsage(map, providerName, t) ==
  IF MapHas(map, providerName)
    THEN MapSet(map, providerName, [MapGet(map, providerName) EXCEPT !.last_used = <<t>>])
    ELSE map

\* ---------------------------------------------------------------- requests

\* The candidate lists selection can hand to the loop: every ordering of
\* every subset of the registry's models, the empty list included.
CandidateLists ==
  {list \in UNION {[1..n -> AllModels] : n \in 0..Cardinality(AllModels)} :
     \A j, k \in DOMAIN list : j # k => list[j] # list[k]}

CurrentModel(r) == models[r][idx[r]]

AllFailedResponse ==
  [success |-> FALSE, data |-> "All available models failed to execute the request"]

\* executeLLMModel's result for a successful adapter call by `model`.
SuccessResponse(model) == [success |-> TRUE, data |-> ModelKey(model)]

\* The state of a client constructed with DefaultConfig, once initialize()
\* has loaded the full snapshot; no chat request has run yet.
Init ==
  /\ now = 0
  /\ modelHealth = <<>>
  /\ providers = DefaultConfig
  /\ llmProviders = processProviderAPIKeys(populateLLMData(<<>>, SNAPSHOT_FULL.llm), providers)
  /\ mediaProviders = processProviderAPIKeys(populateMediaData(<<>>, SNAPSHOT_FULL.media), providers)
  /\ call = [op |-> "initialize", snapshot |-> SNAPSHOT_FULL]
  /\ revoked = {}
  /\ rotating \in BOOLEAN
  /\ modelSelection = DefaultModelSelection
  /\ maxAge = DEFAULT_MAX_AGE
  /\ staleCleanUp = TRUE
  /\ lastInitialization = now
  /\ pc = [r \in Requests |-> "idle"]
  /\ models = [r \in Requests |-> <<>>]
  /\ idx = [r \in Requests |-> 1]
  /\ invoked = [r \in Requests |-> <<>>]
  /\ thrown = <<>>
  /\ response = [r \in Requests |-> <<>>]

\* The clock advances.
Tick ==
  /\ now < MaxTicks * ClockStep
  /\ now' = now + ClockStep
  /\ thrown' = <<>>
  /\ call' = NoCall
  /\ UNCHANGED <<modelHealth, registryVars, pc, models, idx, invoked, response>>

\* execute / executeWithCircuitBreaker up to the call of executeModelsInOrder:
\* analysis, filtering and selection produce the ordered candidate list.
StartRequest(r, list) ==
  /\ pc[r] = "idle"
  /\ pc' = [pc EXCEPT ![r] = "loop"]
  /\ models' = [models EXCEPT ![r] = list]
  /\ idx' = [idx EXCEPT ![r] = 1]
  /\ invoked' = [invoked EXCEPT ![r] = <<>>]
  /\ thrown' = <<>>
  /\ call' = NoCall
  /\ response' = [response EXCEPT ![r] = <<>>]
  /\ UNCHANGED <<now, modelHealth, registryVars>>

\* executeModelsInOrder: a Media model is logged and skipped (continue).
SkipMedia(r) ==
  /\ pc[r] = "loop"
  /\ idx[r] <= Len(models[r])
  /\ ModelType(CurrentModel(r)) = "Media"
  /\ idx' = [idx EXCEPT ![r] = @ + 1]
  /\ thrown' = <<>>
  /\ call' = NoCall
  /\ UNCHANGED <<now, modelHealth, registryVars, pc, models, invoked, response>>

\* executeModelsInOrder -> executeLLMModel: createProvider and
\* await provider.sendMessage(model.name, userRequest).
InvokeAdapter(r) ==
  /\ pc[r] = "loop"
  /\ idx[r] <= Len(models[r])
  /\ ModelType(CurrentModel(r)) = "LLM"
  /\ invoked' = [invoked EXCEPT ![r] = Append(@, idx[r])]
  /\ pc' = [pc EXCEPT ![r] = "await"]
  /\ thrown' = <<>>
  /\ call' = NoCall
  /\ UNCHANGED <<now, modelHealth, registryVars, models, idx, response>>

\* Mutant of AdapterSucceeds: the loop does not return on a success but goes
\* on with the next candidate.
AdapterSucceedsAndContinues(r) ==
  /\ pc[r] = "await"
  /\ modelHealth' = resetModelFailures(modelHealth, CurrentModel(r), now)
  /\ idx' = [idx EXCEPT ![r] = @ + 1]
  /\ pc' = [pc EXCEPT ![r] = "loop"]
  /\ thrown' = <<>>
  /\ call' = NoCall
  /\ UNCHANGED <<now, registryVars, models, invoked, response>>

\* The adapter call resolves with success: reset the health, record the
\* provider usage when rotating, return the response.
AdapterSucceeds(r) ==
  /\ pc[r] = "await"
  /\ modelHealth' = resetModelFailures(modelHealth, CurrentModel(r), now)
  /\ IF rotating
       THEN /\ llmProviders' = updateProviderUsage(llmProviders, CurrentModel(r).provider_name, now)
            /\ mediaProviders' = updateProviderUsage(mediaProviders, CurrentModel(r).provider_name, now)
       ELSE UNCHANGED <<llmProviders, mediaProviders>>
  /\ response' = [response EXCEPT ![r] = <<SuccessResponse(CurrentModel(r))>>]
  /\ pc' = [pc EXCEPT ![r] = "done"]
  /\ thrown' = <<>>
  /\ call' = NoCall
  /\ UNCHANGED <<now, providers, revoked, settingsVars, lastInitialization, models, idx, invoked>>

\* Mutant of AdapterFails: the failed candidate is tried again.
AdapterFailsAndRetries(r, sdkError) ==
  /\ pc[r] = "await"
  /\ FailuresOf(modelHealth, CurrentModel(r)) < MaxFailures
  /\ modelHealth' = recordModelFailure(modelHealth, CurrentModel(r),
                      executeLLMModelThrown(sendMessageFailure(sdkError)), now)
  /\ thrown' = <<sdkError>>
  /\ call' = NoCall
  /\ pc' = [pc EXCEPT ![r] = "loop"]
  /\ UNCHANGED <<now, registryVars, models, idx, invoked, response>>

\* The adapter call resolves with a failure: the adapter returns
\* {success: false, error}, executeLLMModel throws, the catch block records
\* the failure and the loop goes on with the next candidate.
AdapterFails(r, sdkError) ==
  /\ pc[r] = "await"
  /\ FailuresOf(modelHealth, CurrentModel(r)) < MaxFailures
  /\ modelHealth' = recordModelFailure(modelHealth, CurrentModel(r),
                      executeLLMModelThrown(sendMessageFailure(sdkError)), now)
  /\ thrown' = <<sdkError>>
  /\ call' = NoCall
  /\ idx' = [idx EXCEPT ![r] = @ + 1]
  /\ pc' = [pc EXCEPT ![r] = "loop"]
  /\ UNCHANGED <<now, registryVars, models, invoked, response>>

\* executeModelsInOrder: the list is exhausted, return the aggregate failure.
AllModelsFailed(r) ==
  /\ pc[r] = "loop"
  /\ idx[r] > Len(models[r])
  /\ response' = [response EXCEPT ![r] = <<AllFailedResponse>>]
  /\ pc' = [pc EXCEPT ![r] = "done"]
  /\ thrown' = <<>>
  /\ call' = NoCall
  /\ UNCHANGED <<now, modelHealth, registryVars, models, idx, invoked>>

\* execute returns to its caller; the request slot is free again.
Return(r) ==
  /\ pc[r] = "done"
  /\ pc' = [pc EXCEPT ![r] = "idle"]
  /\ models' = [models EXCEPT ![r] = <<>>]
  /\ idx' = [idx EXCEPT ![r] = 1]
  /\ invoked' = [invoked EXCEPT ![r] = <<>>]
  /\ thrown' = <<>>
  /\ call' = NoCall
  /\ response' = [response EXCEPT ![r] = <<>>]
  /\ UNCHANGED <<now, modelHealth, registryVars>>

Next ==
  \/ Tick
  \/ \E r \in Requests, list \in CandidateLists : StartRequest(r, list)
  \/ \E r \in Requests : SkipMedia(r)
  \/ \E r \in Requests : InvokeAdapter(r)
  \/ \E r \in Requests : AdapterSucceeds(r)
  \/ \E r \in Requests, e \in ProviderErrors : AdapterFails(r, e)
  \/ \E r \in Requests : AllModelsFailed(r)
  \/ \E r \in Requests : Return(r)

Spec == Init /\ [][Next]_vars

TypeOK ==
  /\ now \in {k * ClockStep : k \in 0..MaxTicks}
  /\ DOMAIN modelHealth \subseteq ModelKeys
  /\ \A r \in Requests : pc[r] \in {"idle", "loop", "await", "done"}

\* --------------------------------------------------- calls on the registry

\* The arguments the calls below are made with.
ConfigOptions == {<<>>, <<"openai", "anthropic">>, <<"openai", "openai">>}
ProviderArgs == {"openai", "anthropic"}
ModelArgs == {<<"openai", "gpt-4">>, <<"anthropic", "claude-3">>, <<"openai", "dall-e">>}
MetricLists ==
  {<<"artificial_analysis_coding_index">>, <<"mmlu_pro_index", "elo">>}
\* count as ChatService.execute passes it to getFilteredModels
FILTER_COUNT == 10

\* The state of a newly constructed client: the Maps are empty (the
\* constructor's processProviderAPIKeys finds no provider to flag).
InitRegistry ==
  /\ now = 0
  /\ modelHealth = <<>>
  /\ providers \in ConfigOptions
  /\ llmProviders = <<>>
  /\ mediaProviders = <<>>
  /\ call = [op |-> "constructor"]
  /\ revoked = {}
  /\ rotating = TRUE
  /\ modelSelection = DefaultModelSelection
  /\ maxAge = DEFAULT_MAX_AGE
  /\ staleCleanUp = TRUE
  /\ lastInitialization = 0
  /\ pc = [r \in Requests |-> "idle"]
  /\ models = [r \in Requests |-> <<>>]
  /\ idx = [r \in Requests |-> 1]
  /\ invoked = [r \in Requests |-> <<>>]
  /\ thrown = <<>>
  /\ response = [r \in Requests |-> <<>>]

\* RouterClient.initialize: clear both Maps, populate them from the fetched
\* snapshot, then flag the configured providers.
initialize(snapshot) ==
  /\ llmProviders' = processProviderAPIKeys(populateLLMData(<<>>, snapshot.llm), providers)
  /\ mediaProviders' =
       processProviderAPIKeys(populateMediaData(<<>>, snapshot.media), providers)
  /\ lastInitialization' = now
  /\ call' = [op |-> "initialize", snapshot |-> snapshot]
  /\ thrown' = <<>>
  /\ UNCHANGED <<providers, revoked, settingsVars, loopVars>>

\* RouterClient.refreshData: populateLLMData, then populateMediaData, on the
\* Maps as they are.
refreshData(snapshot) ==
  /\ llmProviders' = populateLLMData(llmProviders, snapshot.llm)
  /\ mediaProviders' = populateMediaData(mediaProviders, snapshot.media)
  /\ lastInitialization' = now
  /\ call' = [op |-> "refreshData", snapshot |-> snapshot]
  /\ thrown' = <<>>
  /\ UNCHANGED <<providers, revoked, settingsVars, loopVars>>

\* addProvider: the configuration gets the provider unless it has it; the
\* provider's entries are flagged.
addProvider(providerName) ==
  /\ providers' = IF \E i \in DOMAIN providers : providers[i] = providerName
                    THEN providers ELSE Append(providers, providerName)
  /\ llmProviders' = updateProviderAPIKeyStatus(llmProviders, providerName, TRUE)
  /\ mediaProviders' = updateProviderAPIKeyStatus(mediaProviders, providerName, TRUE)
  /\ call' = [op |-> "addProvider", providerName |-> providerName,
              updated |-> updated(llmProviders, mediaProviders, providerName)]
  /\ revoked' = revoked \ {providerName}
  /\ thrown' = <<>>
  /\ UNCHANGED <<settingsVars, lastInitialization, loopVars>>

\* removeProviderFromConfig: the first configuration entry of the provider
\* is spliced out and the provider's entries are unflagged; without such an
\* entry nothing happens and false is returned.
removeProviderFromConfig(providerName) ==
  LET index == FindIndex(providers, providerName)
  IN /\ IF index # 0
          THEN /\ providers' = Splice(providers, index)
               /\ llmProviders' = updateProviderAPIKeyStatus(llmProviders, providerName, FALSE)
               /\ mediaProviders' =
                    updateProviderAPIKeyStatus(mediaProviders, providerName, FALSE)
          ELSE UNCHANGED <<providers, llmProviders, mediaProviders>>
     /\ call' = IF index # 0
                  THEN [op |-> "removeProviderFromConfig", providerName |-> providerName,
                        result |-> TRUE,
                        updated |-> updated(llmProviders, mediaProviders, providerName)]
                  ELSE [op |-> "removeProviderFromConfig", providerName |-> providerName,
                        result |-> FALSE]
     /\ revoked' = revoked \cup {providerName}
     /\ thrown' = <<>>
     /\ UNCHANGED <<settingsVars, lastInitialization, loopVars>>

\* removeProvider: delete the provider from both Maps.
removeProvider(providerName) ==
  /\ llmProviders' = MapDelete(llmProviders, providerName)
  /\ mediaProviders' = MapDelete(mediaProviders, providerName)
  /\ call' = [op |-> "removeProvider", providerName |-> providerName,
              result |-> MapHas(llmProviders, providerName)
                           \/ MapHas(mediaProviders, providerName)]
  /\ thrown' = <<>>
  /\ UNCHANGED <<providers, revoked, settingsVars, lastInitialization, loopVars>>

\* llmProvider?.models.has(modelName)
HasModel(map, providerName, modelName) ==
  IF MapHas(map, providerName)
    THEN MapHas(MapGet(map, providerName).models, modelName) ELSE FALSE

\* Mutant of removeModel: the health record of the model goes with it.
removeModelForgetsHealth(providerName, modelName) ==
  /\ llmProviders' = RemoveModelFrom(llmProviders, providerName, modelName)
  /\ mediaProviders' = RemoveModelFrom(mediaProviders, providerName, modelName)
  /\ call' = [op |-> "removeModel", providerName |-> providerName,
              modelName |-> modelName,
              result |-> HasModel(llmProviders, providerName, modelName)
                           \/ HasModel(mediaProviders, providerName, modelName)]
  /\ thrown' = <<>>
  /\ modelHealth' = [k \in DOMAIN modelHealth \ {providerName \o ":" \o modelName} |->
                       modelHealth[k]]
  /\ UNCHANGED <<providers, revoked, settingsVars, lastInitialization,
                 now, pc, models, idx, invoked, response>>

\* removeModel: delete the model from both Maps, clean up emptied providers.
removeModel(providerName, modelName) ==
  /\ llmProviders' = RemoveModelFrom(llmProviders, providerName, modelName)
  /\ mediaProviders' = RemoveModelFrom(mediaProviders, providerName, modelName)
  /\ call' = [op |-> "removeModel", providerName |-> providerName,
              modelName |-> modelName,
              result |-> HasModel(llmProviders, providerName, modelName)
                           \/ HasModel(mediaProviders, providerName, modelName)]
  /\ thrown' = <<>>
  /\ UNCHANGED <<providers, revoked, settingsVars, lastInitialization, loopVars>>

\* Mutant of CallGetFilteredModels: the call stamps the providers of the
\* models it returns.
CallGetFilteredModelsStamping(relevantMetrics) ==
  LET result == getFilteredModels(llmProviders, mediaProviders, relevantMetrics, FILTER_COUNT)
  IN /\ call' = [op |-> "getFilteredModels", relevantMetrics |-> relevantMetrics,
                 result |-> result]
     /\ llmProviders' = [i \in DOMAIN llmProviders |->
          IF \E k \in DOMAIN result : result[k].provider_name = llmProviders[i][1]
            THEN <<llmProviders[i][1], [llmProviders[i][2] EXCEPT !.last_used = <<now>>]>>
            ELSE llmProviders[i]]
     /\ thrown' = <<>>
     /\ UNCHANGED <<mediaProviders, providers, revoked, settingsVars, lastInitialization, loopVars>>

\* A call of getFilteredModels(relevantMetrics, priorityMetrics, 10): it
\* returns the list and writes nothing.
CallGetFilteredModels(relevantMetrics) ==
  LET result == getFilteredModels(llmProviders, mediaProviders, relevantMetrics, FILTER_COUNT)
  IN /\ call' = [op |-> "getFilteredModels", relevantMetrics |-> relevantMetrics,
                 result |-> result]
     /\ thrown' = <<>>
     /\ UNCHANGED <<llmProviders, mediaProviders, providers, revoked, settingsVars,
                   lastInitialization, loopVars>>

NextRegistry ==
  \/ \E snapshot \in Snapshots : initialize(snapshot)
  \/ \E snapshot \in Snapshots : refreshData(snapshot)
  \/ \E providerName \in ProviderArgs : addProvider(providerName)
  \/ \E providerName \in ProviderArgs : removeProviderFromConfig(providerName)
  \/ \E providerName \in ProviderArgs : removeProvider(providerName)
  \/ \E arg \in ModelArgs : removeModel(arg[1], arg[2])
  \/ \E relevantMetrics \in MetricLists : CallGetFilteredModels(relevantMetrics)

\* The registry under the calls of the client's user, no chat request running.
SpecRegistry == InitRegistry /\ [][NextRegistry]_vars

\* ------------------------------------------ chat requests and refreshes

\* The client of DefaultConfig from its construction on: initialize and
\* refreshData load snapshots, and chat requests run on what the filter
\* returns.  Selection hands the loop one of the filtered models; the models
\* followed are those of LoopModelNames, the failures drawn are server errors,
\* and the clock stands still.
LoopModelNames == {"gpt-4", "claude-3", "dall-e"}
UsageSnapshots == {SNAPSHOT_FULL, SNAPSHOT_UPDATE}

InitUsage == InitRegistry /\ providers = DefaultConfig

\* The single-candidate lists selection can make of a filter result.
UsageLists ==
  UNION {LET result == getFilteredModels(llmProviders, mediaProviders,
                                         relevantMetrics, FILTER_COUNT)
         IN {<<result[k]>> : k \in {j \in DOMAIN result : result[j].name \in LoopModelNames}} :
           relevantMetrics \in MetricLists}

NextUsage ==
  \/ \E snapshot \in UsageSnapshots : initialize(snapshot)
  \/ \E snapshot \in UsageSnapshots : refreshData(snapshot)
  \/ \E relevantMetrics \in MetricLists : CallGetFilteredModels(relevantMetrics)
  \/ \E r \in Requests, list \in UsageLists : StartRequest(r, list)
  \/ \E r \in Requests : SkipMedia(r)
  \/ \E r \in Requests : InvokeAdapter(r)
  \/ \E r \in Requests : AdapterSucceeds(r)
  \/ \E r \in Requests : AdapterFails(r, Err500)
  \/ \E r \in Requests : AllModelsFailed(r)
  \/ \E r \in Requests : Return(r)

SpecUsage == InitUsage /\ [][NextUsage]_vars

\* ------------------------------------------------ concurrent chat requests

\* Two chat requests in flight on the client of Init.  Selection hands each
\* of them one of ConcurrentLists; the clock stands still.
ConcurrentRequests == {"r1", "r2"}
ConcurrentLists == {<<GPT>>, <<GPT, CLAUDE>>}

InitConcurrent ==
  /\ now = 0
  /\ modelHealth = <<>>
  /\ providers = DefaultConfig
  /\ llmProviders = processProviderAPIKeys(populateLLMData(<<>>, SNAPSHOT_FULL.llm), providers)
  /\ mediaProviders = processProviderAPIKeys(populateMediaData(<<>>, SNAPSHOT_FULL.media), providers)
  /\ call = [op |-> "initialize", snapshot |-> SNAPSHOT_FULL]
  /\ revoked = {}
  /\ rotating \in BOOLEAN
  /\ modelSelection = DefaultModelSelection
  /\ maxAge = DEFAULT_MAX_AGE
  /\ staleCleanUp = TRUE
  /\ lastInitialization = now
  /\ pc = [r \in ConcurrentRequests |-> "idle"]
  /\ models = [r \in ConcurrentRequests |-> <<>>]
  /\ idx = [r \in ConcurrentRequests |-> 1]
  /\ invoked = [r \in ConcurrentRequests |-> <<>>]
  /\ thrown = <<>>
  /\ response = [r \in ConcurrentRequests |-> <<>>]

NextConcurrent ==
  \/ \E r \in ConcurrentRequests, list \in ConcurrentLists : StartRequest(r, list)
  \/ \E r \in ConcurrentRequests : InvokeAdapter(r)
  \/ \E r \in ConcurrentRequests : AdapterSucceeds(r)
  \/ \E r \in ConcurrentRequests, e \in ProviderErrors : AdapterFails(r, e)
  \/ \E r \in ConcurrentRequests : AllModelsFailed(r)
  \/ \E r \in ConcurrentRequests : Return(r)

\* Chat requests interleaving at their awaits on the shared health map.
SpecConcurrent == InitConcurrent /\ [][NextConcurrent]_vars

\* ------------------------------------------------------ failing refreshes

\* The endpoints makeAPICall is called with.
LLM_ENDPOINT == "llms/models"
MEDIA_ENDPOINTS ==
  {"media/text-to-image", "media/image-editing", "media/text-to-speech",
   "media/text-to-video", "media/image-to-video"}

\* The sets of endpoints whose fetch fails in one refresh cycle.
FailureSets ==
  {{LLM_ENDPOINT}, {"media/text-to-image"},
   {"media/text-to-speech", "media/image-to-video"},
   {LLM_ENDPOINT, "media/image-editing"}}

\* The error makeAPICall rethrows.
RequestFailed == [message |-> "Request failed"]

\* Mutant of refreshDataFails: the timestamp is advanced all the same.
refreshDataFailsAdvancing(snapshot, failed) ==
  /\ failed # {}
  /\ llmProviders' = IF LLM_ENDPOINT \in failed THEN llmProviders
                     ELSE populateLLMData(llmProviders, snapshot.llm)
  /\ lastInitialization' = now
  /\ call' = [op |-> "refreshData rejected", snapshot |-> snapshot, failed |-> failed]
  /\ thrown' = <<RequestFailed>>
  /\ UNCHANGED <<mediaProviders, providers, revoked, settingsVars, loopVars>>

\* RouterClient.refreshData when a fetch fails: populateLLMData rejects before
\* it extracts anything if its fetch fails; otherwise it completes and
\* populateMediaData rejects at Promise.all, before any extractMediaData.
\* Nothing catches the error and lastInitialization is not reached.
refreshDataFails(snapshot, failed) ==
  /\ failed # {}
  /\ llmProviders' = IF LLM_ENDPOINT \in failed THEN llmProviders
                     ELSE populateLLMData(llmProviders, snapshot.llm)
  /\ call' = [op |-> "refreshData rejected", snapshot |-> snapshot, failed |-> failed]
  /\ thrown' = <<RequestFailed>>
  /\ UNCHANGED <<mediaProviders, providers, revoked, settingsVars, lastInitialization,
                 loopVars>>

\* RouterClient.initialize when a fetch fails: both Maps are cleared first;
\* the configured providers are not flagged and lastInitialization is not set.
initializeFails(snapshot, failed) ==
  /\ failed # {}
  /\ llmProviders' = IF LLM_ENDPOINT \in failed THEN <<>>
                     ELSE populateLLMData(<<>>, snapshot.llm)
  /\ mediaProviders' = <<>>
  /\ call' = [op |-> "initialize rejected", snapshot |-> snapshot, failed |-> failed]
  /\ thrown' = <<RequestFailed>>
  /\ UNCHANGED <<providers, revoked, settingsVars, lastInitialization, loopVars>>

\* The clock advances between two calls on the client.
TickRefresh ==
  /\ now < MaxTicks * ClockStep
  /\ now' = now + ClockStep
  /\ thrown' = <<>>
  /\ call' = NoCall
  /\ UNCHANGED <<modelHealth, registryVars, pc, models, idx, invoked, response>>

InitRefresh == InitRegistry /\ providers = DefaultConfig

NextRefresh ==
  \/ TickRefresh
  \/ \E snapshot \in Snapshots : initialize(snapshot)
  \/ \E snapshot \in Snapshots : refreshData(snapshot)
  \/ \E snapshot \in Snapshots, failed \in FailureSets : initializeFails(snapshot, failed)
  \/ \E snapshot \in Snapshots, failed \in FailureSets : refreshDataFails(snapshot, failed)

\* The client of DefaultConfig under initialize and refreshData calls whose
\* fetches may fail, with time passing between the calls.
SpecRefresh == InitRefresh /\ [][NextRefresh]_vars

\* --------------------------------------------------- selection strategies

\* slice(0, 5) of the strategies
STRATEGY_COUNT == 5

\* The benchmark items behind the candidates the strategies are applied to.
\* Scores are percentages; model e comes without a price (0).
SELECTION_ITEMS ==
  <<[model_creator |-> [name |-> "openai"], name |-> "a",
     price_per_1M_input_tokens |-> 1, median_time_to_first_token |-> 1,
     evaluations |-> <<[artificial_analysis_coding_index |-> 90]>>],
    [model_creator |-> [name |-> "openai"], name |-> "b",
     price_per_1M_input_tokens |-> 10, median_time_to_first_token |-> 1,
     evaluations |-> <<[artificial_analysis_coding_index |-> 95]>>],
    [model_creator |-> [name |-> "anthropic"], name |-> "c",
     price_per_1M_input_tokens |-> 5, median_time_to_first_token |-> 1,
     evaluations |-> <<[artificial_analysis_coding_index |-> 50, mmlu_pro_index |-> 80]>>],
    [model_creator |-> [name |-> "anthropic"], name |-> "d",
     price_per_1M_input_tokens |-> 5, median_time_to_first_token |-> 1,
     evaluations |-> <<[mmlu_pro_index |-> 60]>>],
    [model_creator |-> [name |-> "google"], name |-> "e",
     price_per_1M_input_tokens |-> 0, median_time_to_first_token |-> 1,
     evaluations |-> <<[artificial_analysis_coding_index |-> 99]>>],
    [model_creator |-> [name |-> "google"], name |-> "f",
     price_per_1M_input_tokens |-> 2, median_time_to_first_token |-> 1,
     evaluations |-> <<[artificial_analysis_coding_index |-> 10, mmlu_pro_index |-> 10]>>],
    [model_creator |-> [name |-> "google"], name |-> "g",
     price_per_1M_input_tokens |-> 7, median_time_to_first_token |-> 1,
     evaluations |-> <<[artificial_analysis_coding_index |-> 70]>>]>>

SNAPSHOT_SELECTION ==
  [llm |-> SELECTION_ITEMS,
   media |-> <<<<DALLE_ITEM>>, <<>>, <<>>, <<>>, <<>>>>]

\* options.providers of the client the strategies are followed on.
SelectionConfig == <<"openai", "anthropic", "google">>

\* The registry of that client after initialize().
SelectionLLMProviders ==
  processProviderAPIKeys(populateLLMData(<<>>, SNAPSHOT_SELECTION.llm), SelectionConfig)
SelectionMediaProviders ==
  processProviderAPIKeys(populateMediaData(<<>>, SNAPSHOT_SELECTION.media), SelectionConfig)

\* Its models, as getModelsWithAPIKeys lists them.
SelectionPool == getModelsWithAPIKeys(SelectionLLMProviders, SelectionMediaProviders)

\* The elements of a list.
Range(seq) == {seq[k] : k \in DOMAIN seq}

\* Array.prototype.reverse
Reverse(list) == [k \in DOMAIN list |-> list[Len(list) + 1 - k]]

\* The elements of base at the positions of the set S, in the order of base.
Pick(base, S) ==
  [k \in 1..Cardinality(S) |->
     base[CHOOSE i \in S : Cardinality({j \in S : j < i}) = k - 1]]

\* analysis.relevantMetrics of the requests followed.
SelectionMetricLists ==
  {<<"artificial_analysis_coding_index">>,
   <<"artificial_analysis_coding_index", "mmlu_pro_index">>,
   <<"mmlu_pro_index", "elo">>}

\* Array.prototype.sort with a comparator that orders by a number: the sort
\* is stable.  Each item carries its key as the fraction num / den (den > 0);
\* descending tells the order.
KeyLess(a, b) == a.num * b.den < b.num * a.den
Precedes(a, b, descending) == IF descending THEN KeyLess(b, a) ELSE KeyLess(a, b)
StableSort(items, descending) ==
  LET n == Len(items)
      before(j, i) == \/ Precedes(items[j], items[i], descending)
                      \/ /\ ~Precedes(items[i], items[j], descending)
                         /\ j < i
      rank(i) == Cardinality({j \in 1..n : j # i /\ before(j, i)}) + 1
  IN [k \in 1..n |-> items[CHOOSE i \in 1..n : rank(i) = k]]

\* .map(item => item.model)
ModelsOf(items) == [k \in DOMAIN items |-> items[k].model]

\* 'price' in model && model.price > 0
HasPriceInfo(model) == IF "price" \in DOMAIN model THEN model.price > 0 ELSE FALSE

\* model.evaluations.get(metric) || 0
ScoreOrZero(model, metric) ==
  IF metric \in DOMAIN model.evaluations THEN model.evaluations[metric] ELSE 0

RECURSIVE SumScores(_, _)
\* relevantMetrics.reduce((sum, metric) => sum + (evaluations.get(metric) || 0), 0)
SumScores(model, relevantMetrics) ==
  IF relevantMetrics = <<>> THEN 0
  ELSE ScoreOrZero(model, Head(relevantMetrics)) + SumScores(model, Tail(relevantMetrics))

\* Mutant of selectCheapestModels: models without price information stay in.
selectCheapestModelsUnfiltered(modelList, relevantMetrics) ==
  Slice(ModelsOf(StableSort([k \in DOMAIN modelList |->
                               [model |-> modelList[k],
                                num |-> modelList[k].price, den |-> 1]],
                            FALSE)),
        STRATEGY_COUNT)

\* selectCheapestModels: filter on price information, sort by price
\* ascending, slice(0, 5).
selectCheapestModels(modelList, relevantMetrics) ==
  LET priced == SelectSeq(modelList, HasPriceInfo)
  IN Slice(ModelsOf(StableSort([k \in DOMAIN priced |->
                                  [model |-> priced[k],
                                   num |-> priced[k].price, den |-> 1]],
                               FALSE)),
           STRATEGY_COUNT)

\* The items the accuracy sort works on: the key is the mean of the relevant
\* scores, sum / relevantMetrics.length.
ScoredItems(modelList, relevantMetrics) ==
  [k \in DOMAIN modelList |->
     [model |-> modelList[k],
      num |-> SumScores(modelList[k], relevantMetrics),
      den |-> Len(relevantMetrics)]]

\* Mutant of selectMostAccurateModels: the sort is ascending.
selectMostAccurateModelsAscending(modelList, relevantMetrics) ==
  Slice(ModelsOf(StableSort(ScoredItems(modelList, relevantMetrics), FALSE)),
        STRATEGY_COUNT)

\* selectMostAccurateModels: sort by the mean relevant score descending,
\* slice(0, 5).
selectMostAccurateModels(modelList, relevantMetrics) ==
  Slice(ModelsOf(StableSort(ScoredItems(modelList, relevantMetrics), TRUE)),
        STRATEGY_COUNT)

\* The items of selectBalancedModels: valueScore = relevantScore / price.
ValuedItems(modelList, relevantMetrics) ==
  [k \in DOMAIN modelList |->
     [model |-> modelList[k],
      num |-> SumScores(modelList[k], relevantMetrics),
      den |-> Len(relevantMetrics) * modelList[k].price]]

\* selectBalancedModels: filter on price information, sort by valueScore
\* descending, slice(0, 5).
selectBalancedModels(modelList, relevantMetrics) ==
  LET priced == SelectSeq(modelList, HasPriceInfo)
  IN Slice(ModelsOf(StableSort(ValuedItems(priced, relevantMetrics), TRUE)),
           STRATEGY_COUNT)

\* The texts the analysis provider answers the ranking prompt with.
RankingTexts ==
  {"",
   "Here is my ranking: b, then c",
   "{\"ranking\": []}",
   "[1, 2]",
   "[]",
   "[\"openai:b\", \"anthropic:c\"]",
   "[\"mistral:large\", \"google:f\", \"a\", \"openai:a\"]",
   "[\"openai:a\", \"openai:a\"]",
   "[\"google:g\", \"google:f\", \"google:e\", \"anthropic:d\", \"anthropic:c\", \"openai:b\"]"}

JSONString(str) == [type |-> "string", value |-> str]
JSONNumber(n) == [type |-> "number", value |-> n]
JSONArray(elements) == [type |-> "array", elements |-> elements]

\* JSON.parse on those texts: the value, or a SyntaxError.
JSONParse(text) ==
  CASE text = "{\"ranking\": []}" ->
         [ok |-> TRUE, value |-> [type |-> "object"]]
    [] text = "[1, 2]" ->
         [ok |-> TRUE, value |-> JSONArray(<<JSONNumber(1), JSONNumber(2)>>)]
    [] text = "[]" ->
         [ok |-> TRUE, value |-> JSONArray(<<>>)]
    [] text = "[\"openai:b\", \"anthropic:c\"]" ->
         [ok |-> TRUE,
          value |-> JSONArray(<<JSONString("openai:b"), JSONString("anthropic:c")>>)]
    [] text = "[\"mistral:large\", \"google:f\", \"a\", \"openai:a\"]" ->
         [ok |-> TRUE,
          value |-> JSONArray(<<JSONString("mistral:large"), JSONString("google:f"),
                                JSONString("a"), JSONString("openai:a")>>)]
    [] text = "[\"openai:a\", \"openai:a\"]" ->
         [ok |-> TRUE,
          value |-> JSONArray(<<JSONString("openai:a"), JSONString("openai:a")>>)]
    [] text = "[\"google:g\", \"google:f\", \"google:e\", \"anthropic:d\", \"anthropic:c\", \"openai:b\"]" ->
         [ok |-> TRUE,
          value |-> JSONArray(<<JSONString("google:g"), JSONString("google:f"),
                                JSONString("google:e"), JSONString("anthropic:d"),
                                JSONString("anthropic:c"), JSONString("openai:b")>>)]
    [] OTHER -> [ok |-> FALSE]

\* String.prototype.split(':') on the strings of those arrays.
SplitColon(str) ==
  CASE str = "mistral:large" -> <<"mistral", "large">>
    [] str = "a" -> <<"a">>
    [] OTHER -> LET model == CHOOSE m \in Range(SelectionPool) : ModelKey(m) = str
                IN <<model.provider_name, model.name>>

\* models.find(m => m.provider_name === provider && m.name === model) for
\* const [provider, model] = modelName.split(':'): <<the model>>, or <<>>.
FindRanked(modelList, modelName) ==
  LET parts == SplitColon(modelName)
      found == SelectSeq(modelList,
                         LAMBDA m : IF Len(parts) >= 2
                                      THEN m.provider_name = parts[1] /\ m.name = parts[2]
                                      ELSE FALSE)
  IN IF found = <<>> THEN <<>> ELSE <<Head(found)>>

RECURSIVE RankedModels(_, _)
\* for (const modelName of rankedModelNames) ... rankedModels.push(foundModel)
RankedModels(rankedModelNames, modelList) ==
  IF rankedModelNames = <<>> THEN <<>>
  ELSE FindRanked(modelList, Head(rankedModelNames).value)
       \o RankedModels(Tail(rankedModelNames), modelList)

\* remainingModels.slice(0, 5 - rankedModels.length): a negative end counts
\* from the end of the array.
SliceRemaining(remainingModels, rankedLength) ==
  IF rankedLength <= STRATEGY_COUNT
    THEN Slice(remainingModels, STRATEGY_COUNT - rankedLength)
  ELSE IF Len(remainingModels) > rankedLength - STRATEGY_COUNT
    THEN SubSeq(remainingModels, 1, Len(remainingModels) - (rankedLength - STRATEGY_COUNT))
  ELSE <<>>

\* Mutant of parseModelRankingResponse: the unranked models are not appended.
parseModelRankingResponseRankedOnly(responseData, modelList, relevantMetrics) ==
  LET parsed == JSONParse(responseData)
  IN IF ~parsed.ok THEN selectBalancedModels(modelList, relevantMetrics)
     ELSE IF parsed.value.type # "array"
       THEN selectBalancedModels(modelList, relevantMetrics)
     ELSE IF \E k \in DOMAIN parsed.value.elements :
               parsed.value.elements[k].type # "string"
       THEN selectBalancedModels(modelList, relevantMetrics)
     ELSE Slice(RankedModels(parsed.value.elements, modelList), STRATEGY_COUNT)

\* parseModelRankingResponse: a SyntaxError of JSON.parse, a value that is no
\* array and an element without split (a TypeError) all end in the catch
\* block, which falls back to selectBalancedModels.
parseModelRankingResponse(responseData, modelList, relevantMetrics) ==
  LET parsed == JSONParse(responseData)
  IN IF ~parsed.ok THEN selectBalancedModels(modelList, relevantMetrics)
     ELSE IF parsed.value.type # "array"
       THEN selectBalancedModels(modelList, relevantMetrics)
     ELSE IF \E k \in DOMAIN parsed.value.elements :
               parsed.value.elements[k].type # "string"
       THEN selectBalancedModels(modelList, relevantMetrics)
     ELSE LET rankedModels == RankedModels(parsed.value.elements, modelList)
              remainingModels ==
                SelectSeq(modelList, LAMBDA m : m \notin Range(rankedModels))
          IN Slice(rankedModels \o SliceRemaining(remainingModels, Len(rankedModels)),
                   STRATEGY_COUNT)

\* How the delegated ranking call ends: no analysis provider with a key, a
\* rejected sendMessage, or a response.
RankingOutcomes ==
  {[kind |-> "no provider"], [kind |-> "rejected"],
   [kind |-> "responded", response |-> [success |-> FALSE]]}
  \cup {[kind |-> "responded", response |-> [success |-> TRUE, data |-> text]] :
          text \in RankingTexts}

\* Mutant of selectBalancedModelsWithLLM: without a ranking nothing is selected.
selectBalancedModelsWithLLMOrNothing(modelList, relevantMetrics, outcome) ==
  IF outcome.kind # "responded" THEN <<>>
  ELSE IF ~outcome.response.success THEN <<>>
  ELSE IF outcome.response.data = "" THEN <<>>
  ELSE parseModelRankingResponse(outcome.response.data, modelList, relevantMetrics)

\* selectBalancedModelsWithLLM
selectBalancedModelsWithLLM(modelList, relevantMetrics, outcome) ==
  IF outcome.kind # "responded" THEN selectBalancedModels(modelList, relevantMetrics)
  ELSE IF ~outcome.response.success THEN selectBalancedModels(modelList, relevantMetrics)
  ELSE IF outcome.response.data = "" THEN selectBalancedModels(modelList, relevantMetrics)
  ELSE parseModelRankingResponse(outcome.response.data, modelList, relevantMetrics)

\* The snapshots the client of the strategies may have loaded: any of the
\* items, in the order above or in the opposite one, with or without the
\* media item.
StrategySnapshots ==
  {[llm |-> Pick(base, S), media |-> media] :
     base \in {SELECTION_ITEMS, Reverse(SELECTION_ITEMS)},
     S \in SUBSET (1..Len(SELECTION_ITEMS)),
     media \in {SNAPSHOT_SELECTION.media, SNAPSHOT_EMPTY.media}}

\* The client of SelectionConfig after initialize() has loaded one of them.
InitStrategies ==
  /\ now = 0
  /\ modelHealth = <<>>
  /\ providers = SelectionConfig
  /\ \E snapshot \in StrategySnapshots :
       /\ llmProviders =
            processProviderAPIKeys(populateLLMData(<<>>, snapshot.llm), providers)
       /\ mediaProviders =
            processProviderAPIKeys(populateMediaData(<<>>, snapshot.media), providers)
       /\ call = [op |-> "initialize", snapshot |-> snapshot]
  /\ revoked = {}
  /\ rotating = TRUE
  /\ modelSelection = DefaultModelSelection
  /\ maxAge = DEFAULT_MAX_AGE
  /\ staleCleanUp = TRUE
  /\ lastInitialization = now
  /\ pc = [r \in Requests |-> "idle"]
  /\ models = [r \in Requests |-> <<>>]
  /\ idx = [r \in Requests |-> 1]
  /\ invoked = [r \in Requests |-> <<>>]
  /\ thrown = <<>>
  /\ response = [r \in Requests |-> <<>>]

\* execute hands the filter's result and the analysis on to the strategy.
\* selectCheapestModels(filteredModels, analysis)
CallSelectCheapestModels ==
  /\ call.op = "getFilteredModels"
  /\ call' = [op |-> "selectCheapestModels", models |-> call.result,
              relevantMetrics |-> call.relevantMetrics,
              result |-> selectCheapestModels(call.result, call.relevantMetrics)]
  /\ thrown' = <<>>
  /\ UNCHANGED <<registryVars, loopVars>>

\* selectMostAccurateModels(filteredModels, analysis)
CallSelectMostAccurateModels ==
  /\ call.op = "getFilteredModels"
  /\ call' = [op |-> "selectMostAccurateModels", models |-> call.result,
              relevantMetrics |-> call.relevantMetrics,
              result |-> selectMostAccurateModels(call.result, call.relevantMetrics)]
  /\ thrown' = <<>>
  /\ UNCHANGED <<registryVars, loopVars>>

\* selectBalancedModelsWithLLM(filteredModels, analysis): the failure of the
\* delegated call is logged, not thrown.
CallSelectBalancedModelsWithLLM(outcome) ==
  /\ call.op = "getFilteredModels"
  /\ call' = [op |-> "selectBalancedModelsWithLLM", models |-> call.result,
              relevantMetrics |-> call.relevantMetrics, outcome |-> outcome,
              result |-> selectBalancedModelsWithLLM(call.result, call.relevantMetrics,
                                                     outcome)]
  /\ thrown' = <<>>
  /\ UNCHANGED <<registryVars, loopVars>>

NextStrategies ==
  \/ \E relevantMetrics \in SelectionMetricLists : CallGetFilteredModels(relevantMetrics)
  \/ CallSelectCheapestModels
  \/ CallSelectMostAccurateModels
  \/ \E outcome \in RankingOutcomes : CallSelectBalancedModelsWithLLM(outcome)

\* The three strategies applied to what the filter returns.
SpecStrategies == InitStrategies /\ [][NextStrategies]_vars

\* ------------------------------------------- configuration and rotation

\* The keys of ModelSelectionSettings.
StrategyFlags == {"cheapest", "accurate", "middle"}
SettingFields == StrategyFlags \cup {"rotating"}

\* Partial<ModelSelectionSettings>: an object with some of the keys.  The
\* objects followed have any of the strategy flags, or the rotating flag.
PartialSettings ==
  UNION {[D -> BOOLEAN] : D \in SUBSET StrategyFlags} \cup [{"rotating"} -> BOOLEAN]

\* settings.field === value
IsSet(settings, field, value) ==
  IF field \in DOMAIN settings THEN settings[field] = value ELSE FALSE

\* if (settings.cheapest && settings.accurate) throw
setModelSelectionThrows(settings) ==
  IsSet(settings, "cheapest", TRUE) /\ IsSet(settings, "accurate", TRUE)

ConfigurationError ==
  [message |-> <<"Cannot", "set", "both", "cheapest", "and", "accurate", "to", "true">>]

\* if (settings.cheapest === false && settings.accurate === false)
\*   settings.middle = true
AutoMiddle(settings) ==
  IF IsSet(settings, "cheapest", FALSE) /\ IsSet(settings, "accurate", FALSE)
    THEN [f \in DOMAIN settings \cup {"middle"} |->
            IF f = "middle" THEN TRUE ELSE settings[f]]
    ELSE settings

\* { ...current, ...settings }
Spread(current, settings) ==
  [f \in DOMAIN current \cup DOMAIN settings |->
     IF f \in DOMAIN settings THEN settings[f] ELSE current[f]]

\* this.modelSelection after a setModelSelection(settings) that does not throw.
MergedSelection(current, settings) == Spread(current, AutoMiddle(settings))

\* this.modelSelection: the strategy flags and the rotating flag.
CurrentSelection ==
  [f \in SettingFields |-> IF f = "rotating" THEN rotating ELSE modelSelection[f]]

\* The part of the configuration a chat request does not touch.
configFrame ==
  <<llmProviders, mediaProviders, providers, revoked, maxAge, staleCleanUp,
    lastInitialization, loopVars>>

\* ConfigurationService.setModelSelection(settings), reached as op.
ApplySettings(op, settings) ==
  /\ call' = [op |-> op, settings |-> settings]
  /\ IF setModelSelectionThrows(settings)
       THEN /\ thrown' = <<ConfigurationError>>
            /\ UNCHANGED settingsVars
       ELSE LET merged == MergedSelection(CurrentSelection, settings)
            IN /\ modelSelection' = [f \in StrategyFlags |-> merged[f]]
               /\ rotating' = merged["rotating"]
               /\ thrown' = <<>>
  /\ UNCHANGED configFrame

setModelSelection(settings) == ApplySettings("setModelSelection", settings)
setCheapest(enabled) == ApplySettings("setCheapest", [cheapest |-> enabled])
setAccurate(enabled) == ApplySettings("setAccurate", [accurate |-> enabled])
setMiddle(enabled) == ApplySettings("setMiddle", [middle |-> enabled])

\* setRotating(enabled): this.modelSelection.rotating = enabled
setRotating(enabled) ==
  /\ call' = [op |-> "setRotating", settings |-> [rotating |-> enabled]]
  /\ rotating' = enabled
  /\ thrown' = <<>>
  /\ UNCHANGED <<modelSelection, configFrame>>

\* getSelectionStrategy()
getSelectionStrategy(selection) ==
  IF selection.cheapest THEN "cheapest"
  ELSE IF selection.accurate THEN "accurate"
  ELSE "middle"

\* slice(0, 10) of the rotation
ROTATION_COUNT == 10

\* The provider names of a list, each once, in the order of first appearance:
\* the keys of providerGroups.
RECURSIVE GroupKeys(_)
GroupKeys(modelList) ==
  IF modelList = <<>> THEN <<>>
  ELSE LET rest == GroupKeys(SubSeq(modelList, 1, Len(modelList) - 1))
           provider == modelList[Len(modelList)].provider_name
       IN IF provider \in Range(rest) THEN rest ELSE Append(rest, provider)

\* provider?.last_used: the provider exists and has been used.
HasLastUsed(map, providerName) ==
  IF MapHas(map, providerName) THEN MapGet(map, providerName).last_used # <<>> ELSE FALSE

\* lastUsed of a provider group: the LLM provider's last_used, else the Media
\* provider's, else 0.
lastUsed(llm, media, providerName) ==
  IF HasLastUsed(llm, providerName) THEN MapGet(llm, providerName).last_used[1]
  ELSE IF HasLastUsed(media, providerName) THEN MapGet(media, providerName).last_used[1]
  ELSE 0

\* providersWithUsage before the sort; num / den is the key of the sort.
providersWithUsage(modelList, llm, media) ==
  LET keys == GroupKeys(modelList)
  IN [k \in DOMAIN keys |->
        [providerName |-> keys[k],
         models |-> SelectSeq(modelList, LAMBDA m : m.provider_name = keys[k]),
         num |-> lastUsed(llm, media, keys[k]), den |-> 1]]

\* Math.max(...providersWithUsage.map(p => p.models.length)), 0 standing for
\* the -Infinity of an empty list.
maxModelsPerProvider(groups) ==
  IF groups = <<>> THEN 0
  ELSE CHOOSE n \in {Len(groups[k].models) : k \in DOMAIN groups} :
         \A k \in DOMAIN groups : Len(groups[k].models) <= n

\* One pass of the inner loop: models[i] of every provider that has one.
RECURSIVE Round(_, _)
Round(groups, i) ==
  IF groups = <<>> THEN <<>>
  ELSE (IF i <= Len(Head(groups).models) THEN <<Head(groups).models[i]>> ELSE <<>>)
       \o Round(Tail(groups), i)

\* The outer loop from round i on.
RECURSIVE Rounds(_, _, _)
Rounds(groups, i, max) ==
  IF i > max THEN <<>> ELSE Round(groups, i) \o Rounds(groups, i + 1, max)

\* Mutant of applyProviderRotation: the most recently used provider first.
applyProviderRotationNewestFirst(modelList, llm, media) ==
  LET sorted == StableSort(providersWithUsage(modelList, llm, media), TRUE)
  IN Slice(Rounds(sorted, 1, maxModelsPerProvider(sorted)), ROTATION_COUNT)

\* Mutant of applyProviderRotation: one round only.
applyProviderRotationOneRound(modelList, llm, media) ==
  LET sorted == StableSort(providersWithUsage(modelList, llm, media), FALSE)
  IN Slice(Rounds(sorted, 1, 1), ROTATION_COUNT)

\* applyProviderRotation(models)
applyProviderRotation(modelList, llm, media) ==
  LET sorted == StableSort(providersWithUsage(modelList, llm, media), FALSE)
  IN Slice(Rounds(sorted, 1, maxModelsPerProvider(sorted)), ROTATION_COUNT)

\* The switch of selectModelsByStrategy.
SelectedByStrategy(modelList, relevantMetrics, outcome, strategy) ==
  CASE strategy = "cheapest" -> selectCheapestModels(modelList, relevantMetrics)
    [] strategy = "accurate" -> selectMostAccurateModels(modelList, relevantMetrics)
    [] OTHER -> selectBalancedModelsWithLLM(modelList, relevantMetrics, outcome)

\* selectModelsByStrategy(models, analysis)
selectModelsByStrategy(modelList, relevantMetrics, outcome, strategy, isRotating, llm, media) ==
  LET selectedModels == SelectedByStrategy(modelList, relevantMetrics, outcome, strategy)
  IN IF isRotating THEN applyProviderRotation(selectedModels, llm, media)
     ELSE selectedModels

\* The providers whose models earlier requests executed with rotation on, in
\* the order of the executions: nothing, one provider, or two.
UsageHistories ==
  {<<>>} \cup {<<p>> : p \in Range(SelectionConfig)}
         \cup {<<p, q>> : p, q \in Range(SelectionConfig)}

\* The provider Map after the executions of a history, the k-th at k * ClockStep.
RECURSIVE UsedBy(_, _)
UsedBy(map, history) ==
  IF history = <<>> THEN map
  ELSE updateProviderUsage(UsedBy(map, SubSeq(history, 1, Len(history) - 1)),
                           history[Len(history)], Len(history) * ClockStep)

\* options.modelSelection of the constructor calls followed.
ConstructorOptions == {settings \in PartialSettings : ~setModelSelectionThrows(settings)}

\* A client built with some options.modelSelection, loaded, and used.
InitSelection ==
  /\ \E history \in UsageHistories :
       /\ now = Len(history) * ClockStep
       /\ llmProviders = UsedBy(SelectionLLMProviders, history)
       /\ mediaProviders = UsedBy(SelectionMediaProviders, history)
  /\ modelHealth = <<>>
  /\ providers = SelectionConfig
  /\ \E userConfig \in ConstructorOptions :
       LET merged == MergedSelection(
                       [f \in SettingFields |->
                          IF f = "rotating" THEN TRUE ELSE DefaultModelSelection[f]],
                       userConfig)
       IN /\ modelSelection = [f \in StrategyFlags |-> merged[f]]
          /\ rotating = merged["rotating"]
          /\ maxAge = DEFAULT_MAX_AGE
          /\ staleCleanUp = TRUE
          /\ call = [op |-> "constructor", settings |-> userConfig]
  /\ revoked = {}
  /\ lastInitialization = 0
  /\ pc = [r \in Requests |-> "idle"]
  /\ models = [r \in Requests |-> <<>>]
  /\ idx = [r \in Requests |-> 1]
  /\ invoked = [r \in Requests |-> <<>>]
  /\ thrown = <<>>
  /\ response = [r \in Requests |-> <<>>]

\* executeWithCircuitBreaker hands the filter's result on to selectModelsByStrategy.
CallSelectModelsByStrategy(outcome) ==
  /\ call.op = "getFilteredModels"
  /\ LET strategy == getSelectionStrategy(modelSelection)
     IN call' = [op |-> "selectModelsByStrategy", models |-> call.result,
                 relevantMetrics |-> call.relevantMetrics, outcome |-> outcome,
                 strategy |-> strategy, isRotating |-> rotating,
                 result |-> selectModelsByStrategy(call.result, call.relevantMetrics,
                                                   outcome, strategy, rotating,
                                                   llmProviders, mediaProviders)]
  /\ thrown' = <<>>
  /\ UNCHANGED <<registryVars, loopVars>>

NextSelection ==
  \/ \E settings \in PartialSettings : setModelSelection(settings)
  \/ \E enabled \in BOOLEAN : setCheapest(enabled)
  \/ \E enabled \in BOOLEAN : setAccurate(enabled)
  \/ \E enabled \in BOOLEAN : setMiddle(enabled)
  \/ \E enabled \in BOOLEAN : setRotating(enabled)
  \/ \E relevantMetrics \in SelectionMetricLists : CallGetFilteredModels(relevantMetrics)
  \/ \E outcome \in RankingOutcomes : CallSelectModelsByStrategy(outcome)

\* Configuration calls and selections of a loaded client.
SpecSelection == InitSelection /\ [][NextSelection]_vars

\* ------------------------------------------------------- request analysis

\* The fixed vocabulary of metric names.
EVALUATION_METRICS ==
  <<"artificial_analysis_intelligence_index", "artificial_analysis_coding_index",
    "artificial_analysis_math_index", "mmlu_pro_index", "physics_knowledge_index",
    "human_level_evaluation_index", "live_code_benchmark_index",
    "science_code_benchmark_index", "math_benchmark_index", "aime_index",
    "aime_25_index", "image_benchmark_index">>

\* A JSON array of strings, a JSON object with the given properties, null.
JSONStrings(strings) == JSONArray([k \in DOMAIN strings |-> JSONString(strings[k])])
JSONObject(fields) == [type |-> "object", fields |-> fields]
JSONNull == [type |-> "null"]

\* response.data of the delegated classification calls followed, by name.
AnalysisTexts ==
  {"no JSON", "null", "42", "{}", "coding request", "six metrics", "unknown metrics",
   "metrics as a string", "metrics null", "image request"}

\* JSON.parse on those texts: the value, or a SyntaxError.
JSONParseAnalysis(text) ==
  CASE text = "null" -> [ok |-> TRUE, value |-> JSONNull]
    [] text = "42" -> [ok |-> TRUE, value |-> JSONNumber(42)]
    [] text = "{}" -> [ok |-> TRUE, value |-> JSONObject(<<>>)]
    [] text = "coding request" ->
         [ok |-> TRUE,
          value |-> JSONObject(
            [requestType |-> JSONString("coding"),
             relevantMetrics |-> JSONStrings(<<"artificial_analysis_coding_index",
                                               "live_code_benchmark_index",
                                               "mmlu_pro_index">>),
             priorityMetrics |-> JSONStrings(<<"artificial_analysis_coding_index",
                                               "live_code_benchmark_index">>),
             modelType |-> JSONString("llm"),
             capability |-> JSONString("text")])]
    [] text = "six metrics" ->
         [ok |-> TRUE,
          value |-> JSONObject(
            [requestType |-> JSONString("math problem"),
             relevantMetrics |-> JSONStrings(<<"artificial_analysis_math_index",
                                               "math_benchmark_index", "aime_index",
                                               "aime_25_index", "mmlu_pro_index",
                                               "artificial_analysis_coding_index">>),
             priorityMetrics |-> JSONStrings(<<"artificial_analysis_math_index",
                                               "math_benchmark_index", "aime_index">>),
             modelType |-> JSONString("llm"),
             capability |-> JSONString("text")])]
    [] text = "unknown metrics" ->
         [ok |-> TRUE,
          value |-> JSONObject(
            [relevantMetrics |-> JSONArray(<<JSONString("speed"), JSONNumber(1),
                                             JSONString("mmlu_pro_index"),
                                             JSONString("elo")>>),
             priorityMetrics |-> JSONStrings(<<"speed">>),
             modelType |-> JSONString("chat"),
             capability |-> JSONString("hologram")])]
    [] text = "metrics as a string" ->
         [ok |-> TRUE,
          value |-> JSONObject(
            [relevantMetrics |-> JSONString("artificial_analysis_coding_index"),
             priorityMetrics |-> JSONStrings(<<"artificial_analysis_coding_index">>)])]
    [] text = "metrics null" ->
         [ok |-> TRUE,
          value |-> JSONObject(
            [relevantMetrics |-> JSONNull,
             priorityMetrics |-> JSONStrings(<<"mmlu_pro_index">>)])]
    [] text = "image request" ->
         [ok |-> TRUE,
          value |-> JSONObject(
            [requestType |-> JSONString("image generation"),
             relevantMetrics |-> JSONStrings(<<"image_benchmark_index">>),
             priorityMetrics |-> JSONStrings(<<"image_benchmark_index">>),
             modelType |-> JSONString("media"),
             capability |-> JSONString("image")])]
    [] OTHER -> [ok |-> FALSE]

\* parsed.property: <<the value>>, or <<>> for undefined.  A number has no
\* such property; reading one off null is a TypeError, tested before.
Property(parsed, property) ==
  IF parsed.type # "object" THEN <<>>
  ELSE IF property \in DOMAIN parsed.fields THEN <<parsed.fields[property]>>
  ELSE <<>>

\* The truthiness of what parsed.property gives.
Truthy(got) ==
  IF got = <<>> THEN FALSE
  ELSE CASE got[1].type = "null" -> FALSE
         [] got[1].type = "string" -> got[1].value # ""
         [] got[1].type = "number" -> got[1].value # 0
         [] OTHER -> TRUE

\* (parsed.property || []) has a filter method: it is an array.
Filterable(got) == IF Truthy(got) THEN got[1].type = "array" ELSE TRUE

\* .filter(metric => validMetrics.has(metric))
ValidMetrics(got) ==
  IF ~Truthy(got) THEN <<>>
  ELSE LET valid == SelectSeq(got[1].elements,
                              LAMBDA e : IF e.type = "string"
                                           THEN e.value \in Range(EVALUATION_METRICS)
                                           ELSE FALSE)
       IN [k \in DOMAIN valid |-> valid[k].value]

\* parsed.property || fallback, as a JSON value
OrElse(got, fallback) == IF Truthy(got) THEN got[1] ELSE JSONString(fallback)

\* fallbackAnalysis(userRequest)
fallbackAnalysis ==
  [requestType |-> JSONString("general"),
   relevantMetrics |-> <<"artificial_analysis_intelligence_index",
                         "artificial_analysis_coding_index">>,
   priorityMetrics |-> <<"artificial_analysis_intelligence_index">>,
   modelType |-> "llm",
   capability |-> JSONString("text")]

\* .slice(0, 4) and .slice(0, 2) of parseAnalysisResponse
RELEVANT_COUNT == 4
PRIORITY_COUNT == 2

\* Mutant of parseAnalysisResponse: the metric names are not validated.
parseAnalysisResponseUnvalidated(responseData) ==
  LET parsed == JSONParseAnalysis(responseData)
  IN IF ~parsed.ok THEN fallbackAnalysis
     ELSE LET relevant == Property(parsed.value, "relevantMetrics")
              priority == Property(parsed.value, "priorityMetrics")
              names(got) == IF Truthy(got)
                              THEN [k \in DOMAIN got[1].elements |->
                                      IF got[1].elements[k].type = "string"
                                        THEN got[1].elements[k].value ELSE "1"]
                              ELSE <<>>
          IN IF parsed.value.type = "null" THEN fallbackAnalysis
             ELSE IF ~Filterable(relevant) \/ ~Filterable(priority) THEN fallbackAnalysis
             ELSE [requestType |-> OrElse(Property(parsed.value, "requestType"), "general"),
                   relevantMetrics |-> Slice(names(relevant), RELEVANT_COUNT),
                   priorityMetrics |-> Slice(names(priority), PRIORITY_COUNT),
                   modelType |-> IF Property(parsed.value, "modelType") = <<JSONString("media")>>
                                   THEN "media" ELSE "llm",
                   capability |-> OrElse(Property(parsed.value, "capability"), "text")]

\* parseAnalysisResponse: a SyntaxError of JSON.parse, a property read off
\* null and a metrics value without filter (TypeErrors) all end in the catch
\* block, which returns the fallback.
parseAnalysisResponse(responseData) ==
  LET parsed == JSONParseAnalysis(responseData)
  IN IF ~parsed.ok THEN fallbackAnalysis
     ELSE LET relevant == Property(parsed.value, "relevantMetrics")
              priority == Property(parsed.value, "priorityMetrics")
          IN IF parsed.value.type = "null" THEN fallbackAnalysis
             ELSE IF ~Filterable(relevant) \/ ~Filterable(priority) THEN fallbackAnalysis
             ELSE [requestType |-> OrElse(Property(parsed.value, "requestType"), "general"),
                   relevantMetrics |-> Slice(ValidMetrics(relevant), RELEVANT_COUNT),
                   priorityMetrics |-> Slice(ValidMetrics(priority), PRIORITY_COUNT),
                   modelType |-> IF Property(parsed.value, "modelType") = <<JSONString("media")>>
                                   THEN "media" ELSE "llm",
                   capability |-> OrElse(Property(parsed.value, "capability"), "text")]

\* How the delegated classification call ends: no provider with a key, a
\* provider createProvider does not know, a rejected sendMessage, or a
\* response.
AnalysisOutcomes ==
  {[kind |-> "no provider"], [kind |-> "invalid provider"], [kind |-> "rejected"],
   [kind |-> "responded", response |-> [success |-> FALSE]],
   [kind |-> "responded", response |-> [success |-> TRUE, data |-> ""]]}
  \cup {[kind |-> "responded", response |-> [success |-> TRUE, data |-> text]] :
          text \in AnalysisTexts}

\* analyzeRequest(userRequest): every throw inside the try block is caught.
analyzeRequest(outcome) ==
  IF outcome.kind # "responded" THEN fallbackAnalysis
  ELSE IF ~outcome.response.success THEN fallbackAnalysis
  ELSE IF outcome.response.data = "" THEN fallbackAnalysis
  ELSE parseAnalysisResponse(outcome.response.data)

\* execute, phase 1: the analysis of the request.
CallAnalyzeRequest(outcome) ==
  /\ call.op # "analyzeRequest"
  /\ call' = [op |-> "analyzeRequest", outcome |-> outcome,
              result |-> analyzeRequest(outcome)]
  /\ thrown' = <<>>
  /\ UNCHANGED <<registryVars, loopVars>>

\* execute, phase 2: the filter is given the metrics of the analysis.
CallGetFilteredModelsOfAnalysis ==
  /\ call.op = "analyzeRequest"
  /\ CallGetFilteredModels(call.result.relevantMetrics)

NextAnalysis ==
  \/ \E outcome \in AnalysisOutcomes : CallAnalyzeRequest(outcome)
  \/ CallGetFilteredModelsOfAnalysis

\* Chat requests up to the filter, on a loaded client.
SpecAnalysis == InitStrategies /\ [][NextAnalysis]_vars

\* ------------------------------------------- consecutive failures of a model

\* A model is followed up to this many failures in a row.
MaxConsecutive == 4

\* A second model of the first provider, as the full snapshot creates it.
GPT_V1 == UpdatedLLMModel(NewLLMModel("openai", "gpt-4-v1"), ExtraItem(1))

\* The candidate lists of the requests followed: models of one provider.
BreakerLists == {<<GPT>>, <<GPT_V1>>, <<GPT, GPT_V1>>}

\* The adapter call resolves with a failure (the catch block of
\* executeModelsInOrder), drawn while the model's count is below maxFailures.
AdapterFailsUpTo(r, sdkError, maxFailures) ==
  /\ pc[r] = "await"
  /\ FailuresOf(modelHealth, CurrentModel(r)) < maxFailures
  /\ modelHealth' = recordModelFailure(modelHealth, CurrentModel(r),
                      executeLLMModelThrown(sendMessageFailure(sdkError)), now)
  /\ thrown' = <<sdkError>>
  /\ call' = NoCall
  /\ idx' = [idx EXCEPT ![r] = @ + 1]
  /\ pc' = [pc EXCEPT ![r] = "loop"]
  /\ UNCHANGED <<now, registryVars, models, invoked, response>>

NextBreaker ==
  \/ Tick
  \/ \E r \in Requests, list \in BreakerLists : StartRequest(r, list)
  \/ \E r \in Requests : InvokeAdapter(r)
  \/ \E r \in Requests : AdapterSucceeds(r)
  \/ \E r \in Requests, e \in {Err401, Err500} : AdapterFailsUpTo(r, e, MaxConsecutive)
  \/ \E r \in Requests : AllModelsFailed(r)
  \/ \E r \in Requests : Return(r)

\* Chat requests over two models of one provider, with failures in a row
\* beyond the threshold.
SpecBreaker == Init /\ [][NextBreaker]_vars

\* ------------------------------------------- health records and the registry

\* A chat request whose candidate list is gpt-4, while the registry has it.
StartRequestOnRegistered(r) ==
  /\ HasModel(llmProviders, GPT.provider_name, GPT.name)
  /\ StartRequest(r, <<GPT>>)

NextHealth ==
  \/ Tick
  \/ \E r \in Requests : StartRequestOnRegistered(r)
  \/ \E r \in Requests : InvokeAdapter(r)
  \/ \E r \in Requests : AdapterSucceeds(r)
  \/ \E r \in Requests, e \in {Err401, Err500} : AdapterFails(r, e)
  \/ \E r \in Requests : AllModelsFailed(r)
  \/ \E r \in Requests : Return(r)
  \/ removeModel(GPT.provider_name, GPT.name)
  \/ removeProvider(GPT.provider_name)
  \/ refreshData(SNAPSHOT_FULL)
  \/ initialize(SNAPSHOT_FULL)

\* Chat requests on gpt-4 between removals and reloads of the registry.
SpecHealth == Init /\ [][NextHealth]_vars

\* ------------------------------------------------------------ data freshness

\* 1000 * 60 * 60: the milliseconds of an hour
HOUR_MS == 1000 * 60 * 60

\* Date.now() when the client is constructed.  Any clock value further from
\* the epoch than the maximum age will do; this one leaves room for the
\* steps of the clock within 32 bits.
DATE_NOW_AT_CONSTRUCTION == 500 * HOUR_MS
\* The clock advances by half an hour, this many times at most.
MaxFreshnessTicks == 5

\* options.maxAge of the clients followed (absent: the default), the
\* arguments of setMaxAge, and the maxAgeHours arguments (<<>>: absent).
MaxAgeOptions == {1, DEFAULT_MAX_AGE}
MaxAgeArgs == {0, 2}
MaxAgeHoursArgs == {<<>>, <<2>>}

\* Mutant of isDataStale: data as old as the maximum age is stale already.
isDataStaleAtAge(last, maxAgeHours, configured, t) ==
  LET ageToUse == IF maxAgeHours = <<>> THEN configured ELSE maxAgeHours[1]
  IN t - last >= ageToUse * HOUR_MS

\* ConfigurationService.isDataStale(lastInitialization, maxAgeHours) at
\* Date.now() = t, this.maxAge = configured.  hoursSinceUpdate > ageToUse is
\* compared in milliseconds: the ages followed are whole hours.
isDataStale(last, maxAgeHours, configured, t) ==
  LET ageToUse == IF maxAgeHours = <<>> THEN configured ELSE maxAgeHours[1]
  IN t - last > ageToUse * HOUR_MS

\* ConfigurationService.getDataHealth(lastInitialization); ageHours, a
\* rounded fraction, is left out.
getDataHealth(last, configured, t) ==
  LET stale == t - last > configured * HOUR_MS
  IN [lastUpdate |-> last, isStale |-> stale,
      status |-> IF stale THEN "stale" ELSE "fresh"]

\* RouterClient.ensureFreshData(maxAgeHours): refreshData when the data is
\* stale, nothing otherwise.
ensureFreshData(maxAgeHours, snapshot) ==
  LET stale == isDataStale(lastInitialization, maxAgeHours, maxAge, now)
  IN /\ call' = [op |-> "ensureFreshData", maxAgeHours |-> maxAgeHours,
                 snapshot |-> snapshot]
     /\ IF stale
          THEN /\ llmProviders' = populateLLMData(llmProviders, snapshot.llm)
               /\ mediaProviders' = populateMediaData(mediaProviders, snapshot.media)
               /\ lastInitialization' = now
          ELSE UNCHANGED <<llmProviders, mediaProviders, lastInitialization>>
     /\ thrown' = <<>>
     /\ UNCHANGED <<providers, revoked, settingsVars, loopVars>>

\* ensureFreshData when a fetch of its refreshData fails: the rejection
\* passes through, as in refreshDataFails.
ensureFreshDataFails(maxAgeHours, snapshot, failed) ==
  /\ isDataStale(lastInitialization, maxAgeHours, maxAge, now)
  /\ failed # {}
  /\ llmProviders' = IF LLM_ENDPOINT \in failed THEN llmProviders
                     ELSE populateLLMData(llmProviders, snapshot.llm)
  /\ call' = [op |-> "ensureFreshData rejected", maxAgeHours |-> maxAgeHours,
              snapshot |-> snapshot, failed |-> failed]
  /\ thrown' = <<RequestFailed>>
  /\ UNCHANGED <<mediaProviders, providers, revoked, settingsVars, lastInitialization,
                 loopVars>>

\* throw new Error('maxAge must be greater than 0')
MaxAgeError == [message |-> <<"maxAge", "must", "be", "greater", "than", "0">>]

\* setMaxAge(maxAge)
setMaxAge(age) ==
  /\ call' = [op |-> "setMaxAge", maxAge |-> age]
  /\ IF age <= 0
       THEN thrown' = <<MaxAgeError>> /\ UNCHANGED maxAge
       ELSE thrown' = <<>> /\ maxAge' = age
  /\ UNCHANGED <<llmProviders, mediaProviders, providers, revoked, rotating,
                 modelSelection, staleCleanUp, lastInitialization, loopVars>>

\* setStaleCleanUp(enabled)
setStaleCleanUp(enabled) ==
  /\ call' = [op |-> "setStaleCleanUp", enabled |-> enabled]
  /\ staleCleanUp' = enabled
  /\ thrown' = <<>>
  /\ UNCHANGED <<llmProviders, mediaProviders, providers, revoked, rotating,
                 modelSelection, maxAge, lastInitialization, loopVars>>

\* Half an hour passes between two calls on the client.
TickFreshness ==
  /\ now < DATE_NOW_AT_CONSTRUCTION + MaxFreshnessTicks * (HOUR_MS \div 2)
  /\ now' = now + HOUR_MS \div 2
  /\ thrown' = <<>>
  /\ call' = NoCall
  /\ UNCHANGED <<modelHealth, registryVars, pc, models, idx, invoked, response>>

\* A newly constructed client of DefaultConfig with options.maxAge and
\* options.stale_clean_up as given.
InitFreshness ==
  /\ now = DATE_NOW_AT_CONSTRUCTION
  /\ modelHealth = <<>>
  /\ providers = DefaultConfig
  /\ llmProviders = <<>>
  /\ mediaProviders = <<>>
  /\ call = [op |-> "constructor"]
  /\ revoked = {}
  /\ rotating = TRUE
  /\ modelSelection = DefaultModelSelection
  /\ maxAge \in MaxAgeOptions
  /\ staleCleanUp \in BOOLEAN
  /\ lastInitialization = 0
  /\ pc = [r \in Requests |-> "idle"]
  /\ models = [r \in Requests |-> <<>>]
  /\ idx = [r \in Requests |-> 1]
  /\ invoked = [r \in Requests |-> <<>>]
  /\ thrown = <<>>
  /\ response = [r \in Requests |-> <<>>]

\* The snapshots of the refreshes: three models, then one of them only.
SNAPSHOT_THREE ==
  [llm |-> <<GPT_ITEM, CLAUDE_ITEM>>,
   media |-> <<<<DALLE_ITEM>>, <<>>, <<>>, <<>>, <<>>>>]
FreshnessSnapshots == {SNAPSHOT_THREE, SNAPSHOT_UPDATE}
FreshnessFailures == {{LLM_ENDPOINT}, {"media/text-to-image"}}

NextFreshness ==
  \/ TickFreshness
  \/ \E snapshot \in FreshnessSnapshots : initialize(snapshot)
  \/ \E snapshot \in FreshnessSnapshots : refreshData(snapshot)
  \/ \E snapshot \in FreshnessSnapshots, failed \in FreshnessFailures :
       refreshDataFails(snapshot, failed)
  \/ \E maxAgeHours \in MaxAgeHoursArgs, snapshot \in FreshnessSnapshots :
       ensureFreshData(maxAgeHours, snapshot)
  \/ \E maxAgeHours \in MaxAgeHoursArgs, snapshot \in FreshnessSnapshots,
        failed \in FreshnessFailures :
       ensureFreshDataFails(maxAgeHours, snapshot, failed)
  \/ \E age \in MaxAgeArgs : setMaxAge(age)
  \/ \E enabled \in BOOLEAN : setStaleCleanUp(enabled)

\* The client under refreshes on demand, with its maximum age and its stale
\* cleanup switched while time passes.
SpecFreshness == InitFreshness /\ [][NextFreshness]_vars

\* ------------------------------------------------- vocabulary of the claims

\* The step in which request r's adapter is invoked for its current candidate.
InvokeStep(r) == pc[r] = "loop" /\ pc'[r] = "await"

\* The step in which request r's pending attempt fails / succeeds.
FailedStep(r) == pc[r] = "await" /\ pc'[r] = "loop" /\ thrown' # <<>>
SucceededStep(r) == pc[r] = "await" /\ pc'[r] = "done"

\* The step that is the call `op` on the registry.
RegistryCall(op) == call'.op = op

\* The provider Map that holds a model record: the LLM family's records
\* carry price_per_1M_input_tokens, the media family's do not.
FamilyOf(llm, media, model) ==
  IF "price_per_1M_input_tokens" \in DOMAIN model THEN llm ELSE media

\* The provider of `model` exists in its family and has has_api_key = true.
HasApiKey(llm, media, model) ==
  LET map == FamilyOf(llm, media, model)
  IN IF MapHas(map, model.provider_name)
       THEN MapGet(map, model.provider_name).has_api_key ELSE FALSE

\* The model records of one provider Map, of all providers.
RegisteredIn(map) ==
  UNION {{map[i][2].models[k][2] : k \in DOMAIN map[i][2].models} : i \in DOMAIN map}

\* The step in which request r's loop passes over a media candidate.
MediaStep(r) ==
  /\ pc[r] = "loop"
  /\ idx[r] <= Len(models[r])
  /\ CurrentModel(r) \in MediaModels
  /\ <<pc'[r], idx'[r]>> # <<pc[r], idx[r]>>


\* The error object the catch block of executeModelsInOrder receives when the
\* SDK error recorded in thrown was raised inside the adapter.
CaughtError(t) == executeLLMModelThrown(sendMessageFailure(t[1]))

HasHealth(health, model) == ModelKey(model) \in DOMAIN health
HealthOf(health, model) == health[ModelKey(model)]
ReasonOf(health, model) ==
  IF HasHealth(health, model) THEN HealthOf(health, model).disabledReason ELSE "null"

\* ------------------------------------------------------------------ claims

\* C1: a candidate that is disabled when its turn comes (PERMANENT, or
\* TEMPORARY with now < disabledUntil) is skipped: its adapter is not invoked.
\* The loop never consults isModelDisabled before the call, so this fails.
C1_DisabledCandidateNotInvoked ==
  [][\A r \in Requests :
       InvokeStep(r) => ~isModelDisabled(CurrentModel(r))]_vars

\* C2: once a model's disabledReason is PERMANENT it stays PERMANENT through
\* failed attempts and the passage of time; only a success on it changes it.
\* A temporary failure that brings the count to 3 overwrites it, so this fails.
C2_PermanentIsSticky ==
  [][\A m \in LLMModels :
       ReasonOf(modelHealth, m) = "PERMANENT"
         => \/ ReasonOf(modelHealth', m) = "PERMANENT"
            \/ \E r \in Requests : SucceededStep(r) /\ CurrentModel(r) = m]_vars

\* C3: a failed attempt classified temporary that brings the count to 3 or
\* more sets disabledReason TEMPORARY and disabledUntil to the failure time
\* plus 15 minutes; one that leaves the count at 1 or 2 leaves disabledReason
\* as it was, and a model that was not disabled before is not disabled after.
C3_TemporaryThreshold ==
  [][\A r \in Requests :
       (FailedStep(r) /\ classifyError(CaughtError(thrown')) = "TEMPORARY")
         => LET m == CurrentModel(r)
                after == HealthOf(modelHealth', m)
            IN /\ HasHealth(modelHealth', m)
               /\ after.failures >= 3
                    => /\ after.disabledReason = "TEMPORARY"
                       /\ "disabledUntil" \in DOMAIN after
                       /\ after.disabledUntil = now + 15 * 60 * 1000
                       /\ after.lastFailure = now
                       /\ isModelDisabledAt(modelHealth', m, now')
               /\ after.failures < 3
                    => /\ after.failures \in {1, 2}
                       /\ after.disabledReason = ReasonOf(modelHealth, m)
                       /\ after.disabledReason # "TEMPORARY"
                       /\ (ReasonOf(modelHealth, m) = "null"
                             => ~isModelDisabledAt(modelHealth', m, now'))]_vars

\* C3 witness: the last step was a failed call classified temporary, and it
\* was the third consecutive failure: the model is now temporarily disabled.
C3_Witness ==
  /\ thrown # <<>>
  /\ classifyError(CaughtError(thrown)) = "TEMPORARY"
  /\ \E m \in LLMModels :
       /\ HasHealth(modelHealth, m)
       /\ HealthOf(modelHealth, m).failures = 3
       /\ HealthOf(modelHealth, m).disabledReason = "TEMPORARY"
       /\ HealthOf(modelHealth, m).lastFailure = now
       /\ HealthOf(modelHealth, m).disabledUntil = now + DISABLE_MS

\* C4: a successful attempt leaves the model with failure count 0 and
\* disabledReason none (a model with no record has neither a count nor a
\* reason), whatever its health was before.
C4_SuccessResets ==
  [][\A r \in Requests :
       SucceededStep(r)
         => LET m == CurrentModel(r)
            IN /\ HasHealth(modelHealth', m) = HasHealth(modelHealth, m)
               /\ HasHealth(modelHealth', m)
                    => /\ HealthOf(modelHealth', m).failures = 0
                       /\ HealthOf(modelHealth', m).disabledReason = "null"
                       /\ "disabledUntil" \notin DOMAIN HealthOf(modelHealth', m)
               /\ ~isModelDisabledAt(modelHealth', m, now')]_vars

\* C4 witness: a request has just returned the success of a model that has
\* a health record (so it had failed before), now reset to 0 / none.
C4_Witness ==
  \E r \in Requests :
    /\ pc[r] = "done"
    /\ idx[r] <= Len(models[r])
    /\ response[r] = <<SuccessResponse(CurrentModel(r))>>
    /\ HasHealth(modelHealth, CurrentModel(r))
    /\ HealthOf(modelHealth, CurrentModel(r)).failures = 0
    /\ HealthOf(modelHealth, CurrentModel(r)).disabledReason = "null"

\* C5: a failed attempt whose error is classified permanent sets
\* disabledReason PERMANENT on that attempt whatever the count; the count
\* grows by exactly one and lastFailure is the failure time.
C5_PermanentFailure ==
  [][\A r \in Requests :
       (FailedStep(r) /\ classifyError(CaughtError(thrown')) = "PERMANENT")
         => LET m == CurrentModel(r)
            IN /\ HasHealth(modelHealth', m)
               /\ HealthOf(modelHealth', m).disabledReason = "PERMANENT"
               /\ HealthOf(modelHealth', m).failures = FailuresOf(modelHealth, m) + 1
               /\ HealthOf(modelHealth', m).lastFailure = now
               /\ isModelDisabledAt(modelHealth', m, now')]_vars

\* C5 witness: the last step was a failed call classified permanent, the
\* model's first failure, and the model is permanently disabled.
C5_Witness ==
  /\ thrown # <<>>
  /\ classifyError(CaughtError(thrown)) = "PERMANENT"
  /\ \E m \in LLMModels :
       /\ HasHealth(modelHealth, m)
       /\ HealthOf(modelHealth, m).failures = 1
       /\ HealthOf(modelHealth, m).disabledReason = "PERMANENT"
       /\ HealthOf(modelHealth, m).lastFailure = now

\* C6: a temporarily disabled model is no longer disabled once now is past
\* disabledUntil, its count still 3 or more; the passage of time changes no
\* health record, and a count only ever decreases (to 0) by a success.
C6_TemporaryExpires ==
  /\ [](\A m \in LLMModels :
          (/\ ReasonOf(modelHealth, m) = "TEMPORARY"
           /\ now > HealthOf(modelHealth, m).disabledUntil)
            => /\ ~isModelDisabled(m)
               /\ HealthOf(modelHealth, m).failures >= 3)
  /\ [][/\ now' # now => modelHealth' = modelHealth
        /\ \A m \in LLMModels :
             FailuresOf(modelHealth', m) < FailuresOf(modelHealth, m)
               => /\ FailuresOf(modelHealth', m) = 0
                  /\ \E r \in Requests : SucceededStep(r) /\ CurrentModel(r) = m]_vars

\* C6 witness: a model disabled temporarily whose disabledUntil is past, with
\* no attempt on it since: its count is still 3 and it is not disabled.
C6_Witness ==
  \E m \in LLMModels :
    /\ ReasonOf(modelHealth, m) = "TEMPORARY"
    /\ now > HealthOf(modelHealth, m).disabledUntil
    /\ HealthOf(modelHealth, m).failures = 3
    /\ ~isModelDisabled(m)

\* C7: when the adapter call fails because of a provider-level HTTP 401, that
\* single failure marks the model permanently disabled and the loop proceeds
\* to the next candidate.  The adapter hands on the message only, so a 401
\* whose message matches no pattern is classified temporary: this fails.
C7_Provider401IsPermanent ==
  [][\A r \in Requests :
       (/\ FailedStep(r)
        /\ "status" \in DOMAIN thrown'[1]
        /\ thrown'[1].status = 401)
         => /\ ReasonOf(modelHealth', CurrentModel(r)) = "PERMANENT"
            /\ idx'[r] = idx[r] + 1]_vars

IsStrictlyIncreasing(seq) ==
  \A j, k \in DOMAIN seq : j < k => seq[j] < seq[k]

\* C8: candidates are invoked one at a time in list order: an adapter is
\* invoked at the loop's current position only, after every earlier position;
\* the loop moves past a position only because its attempt failed or it was
\* skipped; a success returns that attempt's result and nothing is invoked
\* after it.
C8_SequentialInOrder ==
  /\ [](\A r \in Requests :
          /\ IsStrictlyIncreasing(invoked[r])
          /\ pc[r] = "await" => /\ invoked[r] # <<>>
                                /\ invoked[r][Len(invoked[r])] = idx[r]
          /\ pc[r] = "loop" => \A j \in Range(invoked[r]) : j < idx[r])
  /\ [][\A r \in Requests :
          /\ InvokeStep(r) => invoked'[r] = Append(invoked[r], idx[r])
          /\ (invoked'[r] # invoked[r] /\ pc'[r] # "idle" /\ pc[r] # "idle")
               => InvokeStep(r)
          /\ (pc[r] # "idle" /\ pc'[r] # "idle" /\ idx'[r] # idx[r])
               => /\ idx'[r] = idx[r] + 1
                  /\ FailedStep(r) \/ MediaStep(r)
          /\ SucceededStep(r)
               => /\ response'[r] = <<[success |-> TRUE, data |-> ModelKey(CurrentModel(r))]>>
                  /\ invoked'[r] = invoked[r]
          /\ pc[r] = "done"
               => \/ pc'[r] = "idle"
                  \/ /\ pc'[r] = "done"
                     /\ invoked'[r] = invoked[r]
                     /\ response'[r] = response[r]]_vars

\* C8 witness: a request returned the success of its second candidate after
\* the first one failed, and a third candidate was never invoked.
C8_Witness ==
  \E r \in Requests :
    /\ pc[r] = "done"
    /\ Len(models[r]) = 3
    /\ invoked[r] = <<1, 2>>
    /\ response[r] = <<SuccessResponse(models[r][2])>>

C10_MediaSkipped ==
  /\ [](/\ \A r \in Requests : \A j \in Range(invoked[r]) : models[r][j] \notin MediaModels
        /\ \A m \in MediaModels : ~HasHealth(modelHealth, m))
  /\ [][\A r \in Requests :
          MediaStep(r)
            => /\ pc'[r] = "loop"
               /\ idx'[r] = idx[r] + 1
               /\ invoked'[r] = invoked[r]
               /\ modelHealth' = modelHealth
               /\ llmProviders' = llmProviders
               /\ mediaProviders' = mediaProviders]_vars

\* C10 witness: the loop has just passed over a media candidate in first
\* position without invoking anything, while health records and usage
\* timestamps of earlier requests exist.
C10_Witness ==
  \E r \in Requests :
    /\ pc[r] = "loop"
    /\ idx[r] = 2
    /\ models[r][1] \in MediaModels
    /\ invoked[r] = <<>>
    /\ modelHealth # <<>>
    /\ \E i \in DOMAIN mediaProviders : mediaProviders[i][2].last_used # <<>>

\* C11: under concurrent chat requests every failed attempt on a model raises
\* that model's failure count by exactly one and touches no other model's
\* record, a success resets the count, and no other step writes the health
\* map: between two successes the count is the number of failed attempts,
\* whatever the interleaving.  From the third such failure on the model is
\* disabled.
C11_NoLostIncrement ==
  [][\A r \in ConcurrentRequests :
       /\ FailedStep(r)
            => /\ FailuresOf(modelHealth', CurrentModel(r))
                    = FailuresOf(modelHealth, CurrentModel(r)) + 1
               /\ \A key \in (DOMAIN modelHealth) \ {ModelKey(CurrentModel(r))} :
                    key \in DOMAIN modelHealth' /\ modelHealth'[key] = modelHealth[key]
               /\ FailuresOf(modelHealth', CurrentModel(r)) >= FAILURE_THRESHOLD
                    => isModelDisabledAt(modelHealth', CurrentModel(r), now')
       /\ SucceededStep(r) => FailuresOf(modelHealth', CurrentModel(r)) = 0
       /\ (\A q \in ConcurrentRequests : pc[q] # "await" \/ pc'[q] = "await")
            => modelHealth' = modelHealth]_vars

\* C11 witness: the third consecutive failure on a model has just been
\* recorded for one request while the other request's attempt on the same
\* model is still pending, and the model is disabled.
C11_Witness ==
  \E r, q \in ConcurrentRequests :
    /\ r # q
    /\ pc[r] = "await"
    /\ pc[q] = "loop" /\ idx[q] > 1 /\ thrown # <<>>
    /\ models[q][idx[q] - 1] = CurrentModel(r)
    /\ FailuresOf(modelHealth, CurrentModel(r)) = FAILURE_THRESHOLD
    /\ isModelDisabled(CurrentModel(r))

\* C12: every model a getFilteredModels call returns belongs to a provider
\* that has has_api_key = true when the call is made, and to no provider
\* whose credentials were removed by removeProviderFromConfig and not added
\* again since.
C12_FilterNeedsCredentials ==
  [][RegistryCall("getFilteredModels")
       => \A k \in DOMAIN call'.result :
            /\ HasApiKey(llmProviders, mediaProviders, call'.result[k])
            /\ call'.result[k].provider_name \notin revoked]_vars

\* C13: a getFilteredModels call returns exactly the registered models whose
\* provider has has_api_key = true and that have an evaluation for at least
\* one of the relevant metrics: each of them is in the returned list and
\* nothing else is.
C13_FilterReturnsExactly ==
  [][RegistryCall("getFilteredModels")
       => Range(call'.result)
            = {model \in RegisteredIn(llmProviders) \cup RegisteredIn(mediaProviders) :
                 /\ HasApiKey(llmProviders, mediaProviders, model)
                 /\ Range(call'.relevantMetrics) \cap DOMAIN model.evaluations # {}}]_vars

\* C14: a getFilteredModels call writes nothing: both provider Maps (models,
\* has_api_key flags, last_used timestamps), the configuration and the health
\* map are the same after it, and a second call with the same metrics on the
\* state it leaves returns the same list in the same order.
C14_FilterIsPure ==
  [][RegistryCall("getFilteredModels")
       => /\ llmProviders' = llmProviders
          /\ mediaProviders' = mediaProviders
          /\ providers' = providers
          /\ modelHealth' = modelHealth
          /\ call'.result = getFilteredModels(llmProviders', mediaProviders',
                                              call'.relevantMetrics, FILTER_COUNT)]_vars

\* C14 witness: a filter call has just returned several models while a
\* health record and a provider usage timestamp exist.
C14_Witness ==
  /\ call.op = "getFilteredModels"
  /\ Len(call.result) >= 2
  /\ modelHealth # <<>>
  /\ \E i \in DOMAIN llmProviders : llmProviders[i][2].last_used # <<>>

\* The model keys a refresh's snapshot lists for the LLM / the media family.
LLMKeysOf(snapshot) == {ItemKey(snapshot.llm[i]) : i \in DOMAIN snapshot.llm}
MediaKeysOf(snapshot) ==
  UNION {{ItemKey(snapshot.media[k][i]) : i \in DOMAIN snapshot.media[k]} :
           k \in DOMAIN snapshot.media}

\* last_used = none: the record carries no time of use.
NeverUsed(modelData) ==
  IF "last_used" \in DOMAIN modelData THEN modelData.last_used = <<>> ELSE TRUE

\* What the staleness rule asks of one family's Map over a refresh: of the
\* models absent from the snapshot, the never-used ones are gone and the
\* used ones are still there, unchanged.
StalePurged(map, mapAfter, snapshotKeys) ==
  \A modelData \in RegisteredIn(map) :
    ModelKey(modelData) \notin snapshotKeys
      => IF NeverUsed(modelData)
           THEN ~HasModel(mapAfter, modelData.provider_name, modelData.name)
           ELSE modelData \in RegisteredIn(mapAfter)

\* C15: after a refresh, a model that was registered before it and that the
\* snapshot does not list has been removed if and only if it had never been
\* used; a used one is retained with all its fields unchanged.
C15_StalePurgedIffUnused ==
  [][RegistryCall("refreshData")
       => /\ StalePurged(llmProviders, llmProviders', LLMKeysOf(call'.snapshot))
          /\ StalePurged(mediaProviders, mediaProviders', MediaKeysOf(call'.snapshot))]_vars

\* The state shows that the execution loop has executed modelData with
\* success: a request holds its success response, or its health record has
\* been reset to zero failures (resetModelFailures is the only writer of 0).
SuccessfullyExecuted(modelData) ==
  \/ \E r \in DOMAIN response : response[r] = <<SuccessResponse(modelData)>>
  \/ IF HasHealth(modelHealth, modelData)
       THEN HealthOf(modelHealth, modelData).failures = 0 ELSE FALSE

\* One family's Map over a refresh: an executed model stays registered, and
\* a model that is gone was neither executed nor listed by the snapshot.
ExecutedModelsKept(map, mapAfter, snapshotKeys) ==
  \A modelData \in RegisteredIn(map) :
    /\ SuccessfullyExecuted(modelData)
         => HasModel(mapAfter, modelData.provider_name, modelData.name)
    /\ ~HasModel(mapAfter, modelData.provider_name, modelData.name)
         => /\ ~SuccessfullyExecuted(modelData)
            /\ ModelKey(modelData) \notin snapshotKeys

\* C16: a refresh never removes a model the execution loop has executed with
\* success, also when the snapshot no longer lists it; a model the refresh
\* removes was never executed and is absent from the snapshot.
C16_ExecutedModelSurvivesRefresh ==
  [][RegistryCall("refreshData")
       => /\ ExecutedModelsKept(llmProviders, llmProviders', LLMKeysOf(call'.snapshot))
          /\ ExecutedModelsKept(mediaProviders, mediaProviders',
                                MediaKeysOf(call'.snapshot))]_vars

\* A refresh has just run with a snapshot that does not list a registered
\* model whose health record shows an earlier success.
C16_Witness ==
  /\ call.op = "refreshData"
  /\ \E modelData \in RegisteredIn(llmProviders) :
       /\ ModelKey(modelData) \notin LLMKeysOf(call.snapshot)
       /\ HasHealth(modelHealth, modelData)
       /\ HealthOf(modelHealth, modelData).failures = 0
       /\ MapGet(llmProviders, modelData.provider_name).last_used # <<>>

\* Every provider of the Map has at least one model.
NoEmptyProvider(map) == \A i \in DOMAIN map : Len(map[i][2].models) > 0

\* C17: no provider with zero models is left in either family of the
\* registry, whatever calls (initialize, refreshData, removeModel,
\* removeProvider, ...) have completed: removing a provider's last model
\* removes the provider.
C17_NoEmptyProvider ==
  /\ NoEmptyProvider(llmProviders)
  /\ NoEmptyProvider(mediaProviders)

\* removeModel has just removed a provider's last model, and the provider
\* with it, while another provider is still registered.
C17_Witness ==
  /\ call.op = "removeModel"
  /\ call.result
  /\ ~MapHas(llmProviders, call.providerName)
  /\ ~MapHas(mediaProviders, call.providerName)
  /\ llmProviders # <<>>

\* The fields of a model record that extractLLMData / extractMediaData assign.
BenchmarkFields ==
  {"price", "latency", "price_per_1M_input_tokens", "median_time_to_first_token",
   "evaluations", "elo", "rank", "model_type"}

\* A model record without its benchmark-derived fields.
KeptFields(modelData) ==
  [f \in (DOMAIN modelData) \ BenchmarkFields |-> modelData[f]]

\* One family's Map over a refresh: a surviving provider keeps has_api_key
\* and last_used, a surviving model keeps every field that is not
\* benchmark-derived (and gains none).
RefreshFrame(map, mapAfter) ==
  \A i \in DOMAIN map :
    LET providerName == map[i][1]
        before == map[i][2]
    IN MapHas(mapAfter, providerName) =>
         LET after == MapGet(mapAfter, providerName)
         IN /\ after.has_api_key = before.has_api_key
            /\ after.last_used = before.last_used
            /\ \A k \in DOMAIN before.models :
                 MapHas(after.models, before.models[k][1]) =>
                   KeptFields(MapGet(after.models, before.models[k][1]))
                     = KeptFields(before.models[k][2])

\* C18: a refresh leaves the circuit-breaker health, the last_used times and
\* the has_api_key flags of the surviving providers and models as they were;
\* what it overwrites on a surviving model are benchmark-derived fields only.
C18_RefreshFrame ==
  [][RegistryCall("refreshData")
       => /\ modelHealth' = modelHealth
          /\ RefreshFrame(llmProviders, llmProviders')
          /\ RefreshFrame(mediaProviders, mediaProviders')]_vars

\* A refresh has run on a registry with a failure on record, a credentialed
\* and used provider, and gpt-4 carrying the prices of the update snapshot
\* next to a score of the full one.
C18_Witness ==
  /\ call.op = "refreshData"
  /\ call.snapshot = SNAPSHOT_UPDATE
  /\ \E k \in DOMAIN modelHealth : modelHealth[k].failures > 0
  /\ HasModel(llmProviders, "openai", "gpt-4")
  /\ LET provider == MapGet(llmProviders, "openai")
         modelData == MapGet(provider.models, "gpt-4")
     IN /\ provider.has_api_key
        /\ provider.last_used # <<>>
        /\ modelData.price = GPT_ITEM_UPDATED.price_per_1M_input_tokens
        /\ "artificial_analysis_coding_index" \in DOMAIN modelData.evaluations

\* The last_used time of every provider of a Map, by provider name.
LastUsedOf(map) == [i \in DOMAIN map |-> <<map[i][1], map[i][2].last_used>>]

\* C19: refreshing a second time with the same snapshot changes nothing: the
\* registry a refresh leaves is the registry a further refresh with that
\* snapshot leaves, and the refresh touches neither the health map nor the
\* last_used time of a provider it found.
C19_RefreshIdempotent ==
  [][RegistryCall("refreshData")
       => /\ populateLLMData(llmProviders', call'.snapshot.llm) = llmProviders'
          /\ populateMediaData(mediaProviders', call'.snapshot.media) = mediaProviders'
          /\ modelHealth' = modelHealth
          /\ SubSeq(LastUsedOf(llmProviders'), 1, Len(llmProviders)) = LastUsedOf(llmProviders)
          /\ SubSeq(LastUsedOf(mediaProviders'), 1, Len(mediaProviders))
               = LastUsedOf(mediaProviders)]_vars

\* A refresh with the full snapshot has run on a registry that an earlier
\* update snapshot had written to, with a health record and a used provider.
C19_Witness ==
  /\ call.op = "refreshData"
  /\ call.snapshot = SNAPSHOT_FULL
  /\ modelHealth # <<>>
  /\ \E i \in DOMAIN mediaProviders : mediaProviders[i][2].last_used # <<>>
  /\ HasModel(llmProviders, "openai", "gpt-4")
  /\ LET modelData == MapGet(MapGet(llmProviders, "openai").models, "gpt-4")
     IN /\ modelData.price = GPT_ITEM.price_per_1M_input_tokens
        /\ "mmlu_pro_index" \in DOMAIN modelData.evaluations

\* The evaluation scores a snapshot item reports.
ReportedByLLMItem(item) == PopulateEvaluations(<<>>, item.evaluations)
ReportedByMediaItem(item) == SetIfReported(SetIfReported(<<>>, item, "elo"), item, "rank")

\* The registered LLM model of a snapshot item holds the item's prices,
\* latency and evaluation scores, and no other score.
SyncedWithLLMItem(llm, item) ==
  /\ HasModel(llm, item.model_creator.name, item.name)
  /\ LET modelData == MapGet(MapGet(llm, item.model_creator.name).models, item.name)
     IN /\ modelData.price_per_1M_input_tokens = item.price_per_1M_input_tokens
        /\ modelData.price = item.price_per_1M_input_tokens
        /\ modelData.median_time_to_first_token = item.median_time_to_first_token
        /\ modelData.latency = item.median_time_to_first_token
        /\ modelData.evaluations = ReportedByLLMItem(item)

\* The registered media model of a snapshot item holds the item's scores,
\* and no other score.
SyncedWithMediaItem(media, item) ==
  /\ HasModel(media, item.model_creator.name, item.name)
  /\ LET modelData == MapGet(MapGet(media, item.model_creator.name).models, item.name)
     IN /\ modelData.elo = OrZero(item, "elo")
        /\ modelData.rank = OrZero(item, "rank")
        /\ modelData.evaluations = ReportedByMediaItem(item)

\* C20: after a refresh with snapshot S every model S lists holds exactly the
\* prices, latency and evaluation scores S gives for it; a score an earlier
\* snapshot gave and S does not report is not kept.
C20_RefreshResynchronizes ==
  [][RegistryCall("refreshData")
       => LET S == call'.snapshot
          IN /\ \A i \in DOMAIN S.llm : SyncedWithLLMItem(llmProviders', S.llm[i])
             /\ \A k \in DOMAIN S.media : \A i \in DOMAIN S.media[k] :
                  SyncedWithMediaItem(mediaProviders', S.media[k][i])]_vars

\* C21: when a category fetch fails during a refresh, the call throws to its
\* caller and lastInitialization is not advanced; the text-model changes are
\* applied exactly when the text-model fetch succeeded, and no media-family
\* record is changed.
C21_FailedRefresh ==
  [][RegistryCall("refreshData rejected")
       => /\ thrown' # <<>>
          /\ lastInitialization' = lastInitialization
          /\ mediaProviders' = mediaProviders
          /\ llmProviders' =
               IF LLM_ENDPOINT \in call'.failed THEN llmProviders
               ELSE populateLLMData(llmProviders, call'.snapshot.llm)]_vars

\* A refresh whose media fetch failed has left the update snapshot's price on
\* gpt-4 and the media records of the full snapshot, well after the last
\* completed initialization.
C21_Witness ==
  /\ call.op = "refreshData rejected"
  /\ LLM_ENDPOINT \notin call.failed
  /\ call.snapshot = SNAPSHOT_UPDATE
  /\ thrown # <<>>
  /\ lastInitialization < now
  /\ HasModel(llmProviders, "openai", "gpt-4")
  /\ MapGet(MapGet(llmProviders, "openai").models, "gpt-4").price
       = GPT_ITEM_UPDATED.price_per_1M_input_tokens
  /\ HasModel(mediaProviders, "openai", "dall-e")
  /\ MapGet(MapGet(mediaProviders, "openai").models, "dall-e").elo = DALLE_ITEM.elo

\* The step in which updateProviderAPIKeyStatus(call'.providerName, flag) runs:
\* addProvider runs it with true, removeProviderFromConfig with false when
\* it found the provider in the configuration.
StatusUpdateStep(flag) ==
  IF flag THEN RegistryCall("addProvider")
  ELSE RegistryCall("removeProviderFromConfig") /\ call'.result

\* mapAfter is map with has_api_key = flag on the provider's record, if the
\* Map has one, and nothing else changed.
FlagSetIn(map, mapAfter, providerName, flag) ==
  /\ Len(mapAfter) = Len(map)
  /\ \A i \in DOMAIN map :
       /\ mapAfter[i][1] = map[i][1]
       /\ mapAfter[i][2] = IF map[i][1] = providerName
                             THEN [map[i][2] EXCEPT !.has_api_key = flag]
                             ELSE map[i][2]

\* C22: updateProviderAPIKeyStatus(p, flag) sets has_api_key to flag on p's
\* record in each family that has p and returns true; when neither family
\* has p it changes nothing in the registry and returns false.
C22_StatusUpdate ==
  [][\A flag \in BOOLEAN :
       StatusUpdateStep(flag) =>
         LET p == call'.providerName
             known == MapHas(llmProviders, p) \/ MapHas(mediaProviders, p)
         IN /\ FlagSetIn(llmProviders, llmProviders', p, flag)
            /\ FlagSetIn(mediaProviders, mediaProviders', p, flag)
            /\ call'.updated = known
            /\ ~known => /\ llmProviders' = llmProviders
                         /\ mediaProviders' = mediaProviders]_vars

\* The status update has just unflagged a provider that both families have,
\* next to a provider that kept its flag.
C22_Witness ==
  /\ call.op = "removeProviderFromConfig"
  /\ call.result
  /\ call.updated
  /\ MapHas(llmProviders, call.providerName)
  /\ MapHas(mediaProviders, call.providerName)
  /\ ~MapGet(llmProviders, call.providerName).has_api_key
  /\ ~MapGet(mediaProviders, call.providerName).has_api_key
  /\ \E i \in DOMAIN llmProviders : llmProviders[i][2].has_api_key

\* The status update has just run for a provider that neither family has.
C22_WitnessAbsent ==
  /\ call.op = "addProvider"
  /\ ~call.updated
  /\ llmProviders # <<>>
  /\ ~MapHas(llmProviders, call.providerName)
  /\ ~MapHas(mediaProviders, call.providerName)

\* The list has no model twice.
NoRepeats(list) == \A j, k \in DOMAIN list : j # k => list[j] # list[k]

Min(a, b) == IF a < b THEN a ELSE b

\* C24: under the cheapest strategy the selected list holds only candidates
\* with price > 0, in non-decreasing price order, and they are the 5
\* lowest-priced such candidates (all of them when there are fewer).
C24_CheapestSelection ==
  call.op = "selectCheapestModels" =>
    LET result == call.result
        priced == {m \in Range(call.models) : m.price > 0}
    IN /\ Range(result) \subseteq priced
       /\ NoRepeats(result)
       /\ Len(result) = Min(STRATEGY_COUNT, Cardinality(priced))
       /\ \A j, k \in DOMAIN result : j < k => result[j].price <= result[k].price
       /\ \A m \in priced \ Range(result) :
            \A k \in DOMAIN result : result[k].price <= m.price

\* The cheapest strategy has cut six priced candidates down to five and
\* dropped a candidate without a price.
C24_Witness ==
  /\ call.op = "selectCheapestModels"
  /\ Len(call.result) = STRATEGY_COUNT
  /\ Cardinality({m \in Range(call.models) : m.price > 0}) > STRATEGY_COUNT
  /\ \E m \in Range(call.models) : m.price = 0
  /\ call.result[1].price < call.result[STRATEGY_COUNT].price

RECURSIVE TotalOf(_, _, _)
\* The sum of the model's scores on the first k relevant metrics, a metric
\* the model lacks counting as 0; the mean is this sum over the number of
\* metrics, so for one request the sums order the models as the means do.
TotalOf(model, relevantMetrics, k) ==
  IF k = 0 THEN 0
  ELSE TotalOf(model, relevantMetrics, k - 1)
       + (IF relevantMetrics[k] \in DOMAIN model.evaluations
            THEN model.evaluations[relevantMetrics[k]] ELSE 0)

Total(model, relevantMetrics) == TotalOf(model, relevantMetrics, Len(relevantMetrics))

\* C25: under the most-accurate strategy the selected list is the 5
\* candidates with the highest mean relevant score (all of them when there
\* are fewer), in non-increasing score order, a missing metric counting as 0.
C25_MostAccurateSelection ==
  call.op = "selectMostAccurateModels" =>
    LET result == call.result
        candidates == Range(call.models)
        score(m) == Total(m, call.relevantMetrics)
    IN /\ Range(result) \subseteq candidates
       /\ NoRepeats(result)
       /\ Len(result) = Min(STRATEGY_COUNT, Cardinality(candidates))
       /\ \A j, k \in DOMAIN result : j < k => score(result[j]) >= score(result[k])
       /\ \A m \in candidates \ Range(result) :
            \A k \in DOMAIN result : score(result[k]) >= score(m)

\* The most-accurate strategy has cut more than five candidates down to
\* five, one of the selected lacking one of the two relevant metrics.
C25_Witness ==
  /\ call.op = "selectMostAccurateModels"
  /\ Len(call.relevantMetrics) = 2
  /\ Len(call.models) > STRATEGY_COUNT
  /\ Len(call.result) = STRATEGY_COUNT
  /\ \E k \in DOMAIN call.result :
       call.relevantMetrics[2] \notin DOMAIN call.result[k].evaluations
  /\ Total(call.result[1], call.relevantMetrics)
       > Total(call.result[STRATEGY_COUNT], call.relevantMetrics)
  /\ call.result # SubSeq(call.models, 1, STRATEGY_COUNT)

\* The delegated ranking produced a list of strings: sendMessage answered
\* with success and a text that JSON.parse reads as an array of strings.
RankingParsed(outcome) ==
  IF outcome.kind # "responded" THEN FALSE
  ELSE IF ~outcome.response.success THEN FALSE
  ELSE LET parsed == JSONParse(outcome.response.data)
       IN IF ~parsed.ok THEN FALSE
          ELSE IF parsed.value.type # "array" THEN FALSE
          ELSE \A k \in DOMAIN parsed.value.elements :
                 parsed.value.elements[k].type = "string"

\* a's mean relevant score over its price is at least b's (prices > 0).
ValueAtLeast(a, b, relevantMetrics) ==
  Total(a, relevantMetrics) * b.price >= Total(b, relevantMetrics) * a.price

\* C26: when the delegated ranking call fails or its response cannot be
\* parsed, the balanced strategy returns the candidates with price > 0 by
\* mean relevant score over price, descending, truncated to 5, and throws
\* nothing to its caller.
C26_BalancedFallback ==
  (call.op = "selectBalancedModelsWithLLM" /\ ~RankingParsed(call.outcome)) =>
    LET result == call.result
        priced == {m \in Range(call.models) : m.price > 0}
    IN /\ thrown = <<>>
       /\ Range(result) \subseteq priced
       /\ NoRepeats(result)
       /\ Len(result) = Min(STRATEGY_COUNT, Cardinality(priced))
       /\ \A j, k \in DOMAIN result :
            j < k => ValueAtLeast(result[j], result[k], call.relevantMetrics)
       /\ \A m \in priced \ Range(result) :
            \A k \in DOMAIN result : ValueAtLeast(result[k], m, call.relevantMetrics)

\* The ranking came back as prose; the fallback has cut six priced
\* candidates down to five, the cheap model a first and the slightly better
\* and much dearer model b left out.
C26_Witness ==
  /\ call.op = "selectBalancedModelsWithLLM"
  /\ call.outcome.kind = "responded"
  /\ call.outcome.response.success
  /\ ~JSONParse(call.outcome.response.data).ok
  /\ call.outcome.response.data # ""
  /\ Cardinality({m \in Range(call.models) : m.price > 0}) > STRATEGY_COUNT
  /\ Len(call.result) = STRATEGY_COUNT
  /\ call.result[1].name = "a"
  /\ \E m \in Range(call.models) \ Range(call.result) : m.name = "b"

\* The strings of a parsed ranking.
RankedIdentifiers(outcome) ==
  LET elements == JSONParse(outcome.response.data).value.elements
  IN [k \in DOMAIN elements |-> elements[k].value]

\* The candidates the identifiers name, in the order of the identifiers; an
\* identifier that is no candidate's provider:model is passed over.
IdentifiedCandidates(identifiers, candidates) ==
  LET matching == SelectSeq(identifiers,
                            LAMBDA id : \E m \in Range(candidates) : ModelKey(m) = id)
  IN [k \in DOMAIN matching |->
        CHOOSE m \in Range(candidates) : ModelKey(m) = matching[k]]

\* C27: when the delegated ranking returns a parsable list of provider:model
\* identifiers, the balanced result is the identified candidates in the
\* ranked order, then the unranked candidates in their original order, the
\* whole truncated to 5; identifiers that match no candidate are ignored.
C27_RankedSelection ==
  (call.op = "selectBalancedModelsWithLLM" /\ RankingParsed(call.outcome)) =>
    LET ranked == IdentifiedCandidates(RankedIdentifiers(call.outcome), call.models)
        unranked == SelectSeq(call.models, LAMBDA m : m \notin Range(ranked))
    IN call.result = Slice(ranked \o unranked, STRATEGY_COUNT)

\* A ranking with two identifiers of candidates and two that match nothing
\* has been applied to more than five candidates: the two ranked models
\* lead, unranked ones follow.
C27_Witness ==
  /\ call.op = "selectBalancedModelsWithLLM"
  /\ RankingParsed(call.outcome)
  /\ Len(RankedIdentifiers(call.outcome)) = 4
  /\ Len(call.models) > STRATEGY_COUNT
  /\ Len(call.result) = STRATEGY_COUNT
  /\ ModelKey(call.result[1]) = "google:f"
  /\ ModelKey(call.result[2]) = "openai:a"
  /\ call.models[1] \notin {call.result[1], call.result[2]}
  /\ call.result[3] = call.models[1]

\* C23: after any sequence of configuration calls that do not throw
\* (constructor options, setModelSelection, setCheapest, setAccurate,
\* setMiddle) exactly one of the strategy flags cheapest / accurate / middle
\* is true, and a client built without user configuration has middle.
C23_ExactlyOneStrategy ==
  /\ Cardinality({f \in StrategyFlags : modelSelection[f]}) = 1
  /\ (call.op = "constructor" /\ DOMAIN call.settings = {}) => modelSelection.middle

\* The times at which a provider was last used, over both provider Maps; none
\* for a provider never used.
UsageTimes(providerName) ==
  {llmProviders[i][2].last_used[1] :
     i \in {k \in DOMAIN llmProviders :
              llmProviders[k][1] = providerName /\ llmProviders[k][2].last_used # <<>>}}
  \cup
  {mediaProviders[i][2].last_used[1] :
     i \in {k \in DOMAIN mediaProviders :
              mediaProviders[k][1] = providerName /\ mediaProviders[k][2].last_used # <<>>}}

\* Provider p was used less recently than provider q.
UsedBefore(p, q) ==
  \/ UsageTimes(p) = {} /\ UsageTimes(q) # {}
  \/ \E s \in UsageTimes(p), t \in UsageTimes(q) : s < t

\* The round of the k-th model of a list: its rank among the models of its
\* provider.
RoundOf(list, k) ==
  Cardinality({j \in 1..k : list[j].provider_name = list[k].provider_name})

\* The names of the models of a list.
NamesOf(list) == [k \in DOMAIN list |-> list[k].name]

\* C28: with rotation enabled the ordered list goes round by round, one model
\* per provider in each round, and within a round the providers come in
\* ascending order of last_used, a never-used provider first.
C28_RotationOrder ==
  (call.op = "selectModelsByStrategy" /\ call.isRotating) =>
    \A i, j \in DOMAIN call.result :
      i < j =>
        /\ RoundOf(call.result, i) <= RoundOf(call.result, j)
        /\ RoundOf(call.result, i) = RoundOf(call.result, j) =>
             ~UsedBefore(call.result[j].provider_name, call.result[i].provider_name)

\* openai was used before google and each has two of the five most accurate
\* models, listed e, b, a, g by score: the rotation takes b, e, a, g, after
\* the model of the provider never used.
C28_Witness ==
  /\ call.op = "selectModelsByStrategy"
  /\ call.isRotating
  /\ call.strategy = "accurate"
  /\ UsedBefore("anthropic", "openai")
  /\ UsedBefore("openai", "google")
  /\ NamesOf(call.result) = <<"c", "b", "e", "a", "g">>

\* C29: with rotation enabled the ordered list holds exactly the models the
\* same request tries with rotation disabled, each as often, and the models
\* of one provider keep the order the strategy gave them.
C29_RotationPermutes ==
  (call.op = "selectModelsByStrategy" /\ call.isRotating) =>
    LET plain == selectModelsByStrategy(call.models, call.relevantMetrics, call.outcome,
                                        call.strategy, FALSE, llmProviders, mediaProviders)
        ofProvider(list, p) == SelectSeq(list, LAMBDA m : m.provider_name = p)
    IN /\ Range(call.result) = Range(plain)
       /\ Len(call.result) = Len(plain)
       /\ \A k \in DOMAIN plain :
            ofProvider(call.result, plain[k].provider_name)
              = ofProvider(plain, plain[k].provider_name)

\* The rotation reorders five models of three providers.
C29_Witness ==
  /\ call.op = "selectModelsByStrategy"
  /\ call.isRotating
  /\ Len(call.result) = STRATEGY_COUNT
  /\ Cardinality({call.result[k].provider_name : k \in DOMAIN call.result}) = 3
  /\ call.result # selectModelsByStrategy(call.models, call.relevantMetrics, call.outcome,
                                          call.strategy, FALSE, llmProviders, mediaProviders)

\* Every last_used of a provider Map: the providers' and, where a model's
\* record has one, the models'.
TimestampsOf(map) ==
  [i \in DOMAIN map |->
     [providerName |-> map[i][1],
      last_used |-> map[i][2].last_used,
      models |-> [k \in DOMAIN map[i][2].models |->
                    IF "last_used" \in DOMAIN map[i][2].models[k][2]
                      THEN <<map[i][2].models[k][2].last_used>>
                      ELSE <<>>]]]

\* The timestamps of a Map with the provider's last_used set to the time t.
UsedAt(map, providerName, t) ==
  [i \in DOMAIN map |->
     IF map[i][1] = providerName
       THEN [TimestampsOf(map)[i] EXCEPT !.last_used = <<t>>]
       ELSE TimestampsOf(map)[i]]

\* C30: a successful execution sets last_used of the executed model's
\* provider to the current time when rotation is enabled and leaves every
\* last_used as it was when rotation is disabled; a failed or skipped attempt
\* changes no last_used.
C30_UsageRecorded ==
  [][\A r \in Requests :
       /\ SucceededStep(r) =>
            IF rotating
              THEN /\ TimestampsOf(llmProviders')
                       = UsedAt(llmProviders, CurrentModel(r).provider_name, now)
                   /\ TimestampsOf(mediaProviders')
                       = UsedAt(mediaProviders, CurrentModel(r).provider_name, now)
              ELSE /\ TimestampsOf(llmProviders') = TimestampsOf(llmProviders)
                   /\ TimestampsOf(mediaProviders') = TimestampsOf(mediaProviders)
       /\ (FailedStep(r) \/ MediaStep(r)) =>
            /\ TimestampsOf(llmProviders') = TimestampsOf(llmProviders)
            /\ TimestampsOf(mediaProviders') = TimestampsOf(mediaProviders)]_vars

\* C30 witness: with rotation enabled a request has just returned the success
\* of an anthropic model tried after a failed candidate, at a time after the
\* start: anthropic carries that time and openai has not been used.
C30_Witness ==
  \E r \in Requests :
    /\ rotating
    /\ pc[r] = "done"
    /\ idx[r] = 2
    /\ invoked[r] = <<1, 2>>
    /\ response[r] = <<SuccessResponse(CurrentModel(r))>>
    /\ CurrentModel(r).provider_name = "anthropic"
    /\ now > 0
    /\ MapGet(llmProviders, "anthropic").last_used = <<now>>
    /\ MapGet(llmProviders, "openai").last_used = <<>>

\* C30 witness, rotation disabled: a request has returned a success and no
\* provider carries a time of use.
C30_WitnessDisabled ==
  \E r \in Requests :
    /\ ~rotating
    /\ pc[r] = "done"
    /\ response[r] # <<>>
    /\ response[r][1].success
    /\ \A i \in DOMAIN llmProviders : llmProviders[i][2].last_used = <<>>
    /\ \A i \in DOMAIN mediaProviders : mediaProviders[i][2].last_used = <<>>

\* C33: in every reachable state every health record satisfies: disabledReason
\* TEMPORARY implies at least 3 failures and a disabledUntil; at least 3
\* failures imply a disabledReason; no failures imply no disabledReason.
C33_HealthRecordShape ==
  \A key \in DOMAIN modelHealth :
    LET currentHealth == modelHealth[key]
    IN /\ currentHealth.disabledReason = "TEMPORARY"
            => /\ currentHealth.failures >= FAILURE_THRESHOLD
               /\ "disabledUntil" \in DOMAIN currentHealth
               /\ currentHealth.disabledUntil >= currentHealth.lastFailure
       /\ currentHealth.failures >= FAILURE_THRESHOLD
            => currentHealth.disabledReason \in {"TEMPORARY", "PERMANENT"}
       /\ currentHealth.failures = 0 => currentHealth.disabledReason = "null"

\* C33 witness: one model is temporarily disabled after its third failure
\* while another, reset by a success, has a record with no failures.
C33_Witness ==
  \E key, other \in DOMAIN modelHealth :
    /\ modelHealth[key].disabledReason = "TEMPORARY"
    /\ modelHealth[key].failures = FAILURE_THRESHOLD
    /\ modelHealth[other].failures = 0

\* Every provider of the Map is flagged exactly when the configuration names it.
FlaggedAsConfigured(map, config) ==
  \A i \in DOMAIN map : map[i][2].has_api_key = (map[i][1] \in Range(config))

\* C37: after every completed initialize or refreshData each registry
\* provider named in the configured credentials list has has_api_key = true,
\* providers that first appear during the call included, and every other
\* provider has has_api_key = false.
C37_FlagsFollowConfiguration ==
  [][(RegistryCall("initialize") \/ RegistryCall("refreshData"))
       => /\ FlaggedAsConfigured(llmProviders', providers')
          /\ FlaggedAsConfigured(mediaProviders', providers')]_vars

\* C38: the ordered list selectModelsByStrategy hands to the execution loop
\* has each model at most once, under every strategy and whatever the
\* delegated ranking call returns.
C38_NoModelTwice ==
  call.op = "selectModelsByStrategy" => NoRepeats(call.result)

\* C31: every analysis result handed to the filter, from the delegated call
\* or from the fallback, has 3 to 5 relevant metrics and 2 to 3 priority
\* metrics.
C31_MetricCounts ==
  call.op = "analyzeRequest" =>
    /\ Len(call.result.relevantMetrics) \in 3..5
    /\ Len(call.result.priorityMetrics) \in 2..3

\* The responses parseAnalysisResponse cannot use: not JSON, the JSON null,
\* a metrics value that is no list.
UnusableAnalysisTexts == {"no JSON", "null", "metrics as a string"}

\* The delegated classification call, or the parsing of its response, failed.
AnalysisFailed(outcome) ==
  IF outcome.kind # "responded" THEN TRUE
  ELSE IF ~outcome.response.success THEN TRUE
  ELSE outcome.response.data \in {""} \cup UnusableAnalysisTexts

\* C32: a failure of the delegated classification call or of parsing its
\* response is absorbed: the analysis raises nothing and returns the one
\* fallback result, whose relevant metrics are non-empty and from the
\* vocabulary and whose capability is text; the request goes on to the
\* filter with the metrics of the analysis; and no analysis result names a
\* metric outside the vocabulary.
C32_AnalysisFailuresAbsorbed ==
  [][/\ call'.op = "analyzeRequest" =>
          /\ thrown' = <<>>
          /\ Range(call'.result.relevantMetrics) \cup Range(call'.result.priorityMetrics)
                \subseteq Range(EVALUATION_METRICS)
          /\ AnalysisFailed(call'.outcome) =>
                /\ call'.result = analyzeRequest([kind |-> "rejected"])
                /\ call'.result.relevantMetrics # <<>>
                /\ call'.result.capability = JSONString("text")
     /\ call.op = "analyzeRequest" =>
          /\ call'.op = "getFilteredModels"
          /\ call'.relevantMetrics = call.result.relevantMetrics
          /\ thrown' = <<>>]_vars

\* The filter has answered a request whose analysis had failed, and offers
\* models for the fallback metrics.
C32_Witness ==
  /\ call.op = "getFilteredModels"
  /\ call.relevantMetrics = <<"artificial_analysis_intelligence_index",
                              "artificial_analysis_coding_index">>
  /\ call.result # <<>>

\* C34: when a temporary disable has expired and no success came in between,
\* one more temporary failure of the model (its 4th or later in a row)
\* disables it again at once, until the time of that failure plus 15
\* minutes: there is no new allowance of 3 failures.
C34_DisabledAgainAtOnce ==
  [][\A r \in Requests :
       (/\ FailedStep(r)
        /\ classifyError(CaughtError(thrown')) = "TEMPORARY"
        /\ ReasonOf(modelHealth, CurrentModel(r)) = "TEMPORARY"
        /\ ~isModelDisabledAt(modelHealth, CurrentModel(r), now))
       => LET before == HealthOf(modelHealth, CurrentModel(r))
              after == HealthOf(modelHealth', CurrentModel(r))
          IN /\ after.failures = before.failures + 1
             /\ after.failures > FAILURE_THRESHOLD
             /\ after.disabledReason = "TEMPORARY"
             /\ after.disabledUntil = now + DISABLE_MS
             /\ isModelDisabledAt(modelHealth', CurrentModel(r), now')]_vars

\* gpt-4 failed for the 4th time in a row after its first disable had
\* expired, and is disabled for 15 minutes from that failure.
C34_Witness ==
  /\ now = ClockStep
  /\ HasHealth(modelHealth, GPT)
  /\ HealthOf(modelHealth, GPT).failures = FAILURE_THRESHOLD + 1
  /\ HealthOf(modelHealth, GPT).disabledReason = "TEMPORARY"
  /\ HealthOf(modelHealth, GPT).lastFailure = ClockStep
  /\ HealthOf(modelHealth, GPT).disabledUntil = ClockStep + DISABLE_MS

\* C35: a failed or successful attempt on one model changes the health
\* record of that model only: the record of every other model, of the same
\* provider too, stays as it was, and no other record appears.
C35_OtherRecordsUntouched ==
  [][\A r \in Requests :
       (FailedStep(r) \/ SucceededStep(r))
       => /\ DOMAIN modelHealth' \subseteq DOMAIN modelHealth \cup {ModelKey(CurrentModel(r))}
          /\ \A key \in DOMAIN modelHealth :
               key # ModelKey(CurrentModel(r))
                 => key \in DOMAIN modelHealth' /\ modelHealth'[key] = modelHealth[key]]_vars

\* gpt-4 was reset by a success while gpt-4-v1, of the same provider, is
\* temporarily disabled after 3 failures.
C35_Witness ==
  /\ HasHealth(modelHealth, GPT) /\ HasHealth(modelHealth, GPT_V1)
  /\ HealthOf(modelHealth, GPT).failures = 0
  /\ HealthOf(modelHealth, GPT_V1).failures = FAILURE_THRESHOLD
  /\ HealthOf(modelHealth, GPT_V1).disabledReason = "TEMPORARY"

\* C36: removeModel, removeProvider, refreshData and initialize leave every
\* health record as it is, so a disabled model stays disabled across its
\* removal from the registry and its re-creation by a refresh.
C36_HealthOutlivesRegistry ==
  [][(\/ RegistryCall("removeModel") \/ RegistryCall("removeProvider")
      \/ RegistryCall("refreshData") \/ RegistryCall("initialize"))
     => /\ modelHealth' = modelHealth
        /\ isModelDisabledAt(modelHealth', GPT, now') = isModelDisabledAt(modelHealth, GPT, now)]_vars

\* gpt-4 was disabled, removed (a refresh has put it back, behind the
\* provider's other models) and is disabled still.
C36_Witness ==
  /\ call.op = "refreshData"
  /\ MapHas(llmProviders, "openai")
  /\ LET modelsOfProvider == MapGet(llmProviders, "openai").models
     IN /\ Len(modelsOfProvider) > 1
        /\ modelsOfProvider[Len(modelsOfProvider)][1] = "gpt-4"
  /\ isModelDisabled(GPT)
  /\ ReasonOf(modelHealth, GPT) = "TEMPORARY"

\* Every provider and every model of `map` is in `mapAfter`.
NothingRemoved(map, mapAfter) ==
  /\ MapKeys(map) \subseteq MapKeys(mapAfter)
  /\ \A modelData \in RegisteredIn(map) :
       HasModel(mapAfter, modelData.provider_name, modelData.name)

\* The step that is a refresh: refreshData, called as such or through
\* ensureFreshData, completed or rejected.
RefreshStep ==
  \/ RegistryCall("refreshData") \/ RegistryCall("refreshData rejected")
  \/ RegistryCall("ensureFreshData") \/ RegistryCall("ensureFreshData rejected")

AgeOf(ensureCall) ==
  IF ensureCall.maxAgeHours = <<>> THEN maxAge ELSE ensureCall.maxAgeHours[1]

\* The data is older than `hours` hours.
OlderThan(last, t, hours) == t - last > hours * HOUR_MS

\* The step has refreshed the registry from its snapshot / has left it alone.
Refreshed ==
  /\ llmProviders' = populateLLMData(llmProviders, call'.snapshot.llm)
  /\ mediaProviders' = populateMediaData(mediaProviders, call'.snapshot.media)
  /\ lastInitialization' = now'
NotRefreshed == UNCHANGED <<llmProviders, mediaProviders, lastInitialization>>

\* C40: ensureFreshData refreshes exactly when the time since the last
\* successful initialize or refresh exceeds the maximum age, which is so
\* before the first initialization; right after a successful initialize or
\* refresh the data is reported fresh and an ensureFreshData does not
\* refresh; a refresh that fails leaves stale data reported stale.
C40_RefreshOnlyWhenStale ==
  [][/\ RegistryCall("ensureFreshData") =>
          IF OlderThan(lastInitialization, now, AgeOf(call'))
            THEN Refreshed ELSE NotRefreshed
     /\ (RegistryCall("ensureFreshData") \/ RegistryCall("ensureFreshData rejected"))
          /\ lastInitialization = 0
          => OlderThan(lastInitialization, now, AgeOf(call'))
     /\ (\/ RegistryCall("initialize") \/ RegistryCall("refreshData")
         \/ (RegistryCall("ensureFreshData") /\ lastInitialization' # lastInitialization))
          => /\ ~isDataStale(lastInitialization', <<>>, maxAge', now')
             /\ getDataHealth(lastInitialization', maxAge', now').status = "fresh"
     /\ (RegistryCall("ensureFreshData") /\ lastInitialization = now) => NotRefreshed
     /\ RegistryCall("ensureFreshData rejected")
          => /\ OlderThan(lastInitialization, now, AgeOf(call'))
             /\ isDataStale(lastInitialization', call'.maxAgeHours, maxAge', now')
     /\ RegistryCall("refreshData rejected")
          => \A maxAgeHours \in MaxAgeHoursArgs :
               isDataStale(lastInitialization, maxAgeHours, maxAge, now)
                 => isDataStale(lastInitialization', maxAgeHours, maxAge', now')]_vars

\* The data was loaded, grew older than the maximum age of one hour, and an
\* ensureFreshData has just refreshed it: it is reported fresh.
C40_Witness ==
  /\ call.op = "ensureFreshData"
  /\ call.maxAgeHours = <<>>
  /\ maxAge = 1
  /\ lastInitialization = now
  /\ now = DATE_NOW_AT_CONSTRUCTION + 4 * (HOUR_MS \div 2)
  /\ MapHas(llmProviders, "openai")
  /\ getDataHealth(lastInitialization, maxAge, now).status = "fresh"

====
